---- MODULE Spec2Model ----
(***************************************************************************)
(* Model of the Generation Session Bridge                                  *)
(* (patches/react-native-ai-apple/ios/AppleLLMImpl.swift).                 *)
(*                                                                         *)
(* A dictionary ([String: Any]) is a function whose DOMAIN is the set of   *)
(* keys present.  A value whose Swift cast matters is tagged: an enum      *)
(* element is [s |-> "a"] (a String) or [n |-> 1] (a number).  Where the   *)
(* code reads a key with `as? T`, a value of another type behaves like an  *)
(* absent key; where it reads it with `as? T?` (the description and the    *)
(* inputSchema of a tool), a value of another type fails the cast while an *)
(* absent key does not.                                                    *)
(***************************************************************************)
EXTENDS Integers, Sequences, FiniteSets, TLC

Has(d, k) == k \in DOMAIN d

Range(f) == {f[i] : i \in DOMAIN f}

IsErr(r) == Has(r, "err")

\* a tagged String or number, i.e. not a dictionary
IsScalar(v) == Has(v, "s") \/ Has(v, "n")

(***************************************************************************)
(* AppleLLMSchemaParser                                                    *)
(***************************************************************************)

\* `schemaDict["enum"] as? [String]`: the cast succeeds when every element is a String
IsStringList(l) == \A i \in 1..Len(l) : Has(l[i], "s")

\* `schemaDict["anyOf"] as? [[String: Any]]`: the cast succeeds when every element is a dictionary
IsDictionaryList(l) == \A i \in 1..Len(l) : ~IsScalar(l[i])

InvalidSchema(m) == [err |-> "invalidSchema", msg |-> m]

\* line 548; the text ends with Regex's own description of the error
InvalidPattern(src) == InvalidSchema("Invalid regex pattern '" \o src \o "'")

\* a translation that compiles the pattern before it looks at the enum list
parseStringSchemaPatternFirst(d) ==
    IF Has(d, "pattern") /\ Has(d.pattern, "src")
    THEN IF d.pattern.valid
         THEN [kind |-> "string", guide |-> [g |-> "pattern", regex |-> d.pattern.src]]
         ELSE InvalidPattern(d.pattern.src)
    ELSE IF Has(d, "enum") /\ IsStringList(d.enum)
    THEN [kind |-> "string", guide |-> [g |-> "anyOf", values |-> [i \in 1..Len(d.enum) |-> d.enum[i].s]]]
    ELSE [kind |-> "string", guide |-> [g |-> "none"]]

\* `schemaDict["pattern"] as? String`: a pattern that is a String is kept as
\* [src |-> its text, valid |-> whether Regex(_:) compiles it]
parseStringSchema(d) ==
    IF Has(d, "enum") /\ IsStringList(d.enum)
    THEN [kind |-> "string", guide |-> [g |-> "anyOf", values |-> [i \in 1..Len(d.enum) |-> d.enum[i].s]]]
    ELSE IF Has(d, "pattern") /\ Has(d.pattern, "src")
    THEN IF d.pattern.valid
         THEN [kind |-> "string", guide |-> [g |-> "pattern", regex |-> d.pattern.src]]
         ELSE InvalidPattern(d.pattern.src)
    ELSE [kind |-> "string", guide |-> [g |-> "none"]]

\* A JSON number reaches the parser as a Double.  The descriptions carry whole
\* and half values, all within the range of Int, and a number x is kept as the
\* integer 2x (7 is 14, 10.5 is 21, -0.5 is -1).  Int(x) truncates toward zero.
IntOf(x) == IF x >= 0 THEN x \div 2 ELSE -((-x) \div 2)

\* The bound of an Int guide is a whole number, kept as itself; the bound of a
\* Double guide is kept like the keyword (2x), and one that is moved to its
\* neighbour (nextDown / nextUp) is kept as [v |-> 2N, ulp |-> -1 / 1].
\* a translation that looks at the inclusive minimum before the inclusive maximum
parseNumberSchemaMinimumFirst(d) ==
    LET int == d.type = "integer"
        k == IF int THEN "integer" ELSE "double"
    IN  IF Has(d, "enum") /\ IsStringList(d.enum)
        THEN [kind |-> "string", guide |-> [g |-> "anyOf", values |-> [i \in 1..Len(d.enum) |-> d.enum[i].s]]]
        ELSE IF Has(d, "multipleOf")
        THEN InvalidSchema("MultipleOf is not supported by Apple Foundational models.")
        ELSE IF Has(d, "minimum")
        THEN [kind |-> k, guide |-> [g |-> "minimum", v |-> IF int THEN IntOf(d.minimum) ELSE d.minimum, ulp |-> 0]]
        ELSE IF Has(d, "maximum")
        THEN [kind |-> k, guide |-> [g |-> "maximum", v |-> IF int THEN IntOf(d.maximum) ELSE d.maximum, ulp |-> 0]]
        ELSE IF Has(d, "exclusiveMaximum")
        THEN IF int
             THEN [kind |-> k, guide |-> [g |-> "maximum", v |-> IntOf(d.exclusiveMaximum) - 1, ulp |-> 0]]
             ELSE [kind |-> k, guide |-> [g |-> "maximum", v |-> d.exclusiveMaximum, ulp |-> -1]]
        ELSE IF Has(d, "exclusiveMinimum")
        THEN IF int
             THEN [kind |-> k, guide |-> [g |-> "minimum", v |-> IntOf(d.exclusiveMinimum) + 1, ulp |-> 0]]
             ELSE [kind |-> k, guide |-> [g |-> "minimum", v |-> d.exclusiveMinimum, ulp |-> 1]]
        ELSE [kind |-> k, guide |-> [g |-> "none"]]

parseNumberSchema(d) ==
    LET int == d.type = "integer"
        k == IF int THEN "integer" ELSE "double"
    IN  IF Has(d, "enum") /\ IsStringList(d.enum)
        THEN [kind |-> "string", guide |-> [g |-> "anyOf", values |-> [i \in 1..Len(d.enum) |-> d.enum[i].s]]]
        ELSE IF Has(d, "multipleOf")
        THEN InvalidSchema("MultipleOf is not supported by Apple Foundational models.")
        ELSE IF Has(d, "maximum")
        THEN [kind |-> k, guide |-> [g |-> "maximum", v |-> IF int THEN IntOf(d.maximum) ELSE d.maximum, ulp |-> 0]]
        ELSE IF Has(d, "minimum")
        THEN [kind |-> k, guide |-> [g |-> "minimum", v |-> IF int THEN IntOf(d.minimum) ELSE d.minimum, ulp |-> 0]]
        ELSE IF Has(d, "exclusiveMaximum")
        THEN IF int
             THEN [kind |-> k, guide |-> [g |-> "maximum", v |-> IntOf(d.exclusiveMaximum) - 1, ulp |-> 0]]
             ELSE [kind |-> k, guide |-> [g |-> "maximum", v |-> d.exclusiveMaximum, ulp |-> -1]]
        ELSE IF Has(d, "exclusiveMinimum")
        THEN IF int
             THEN [kind |-> k, guide |-> [g |-> "minimum", v |-> IntOf(d.exclusiveMinimum) + 1, ulp |-> 0]]
             ELSE [kind |-> k, guide |-> [g |-> "minimum", v |-> d.exclusiveMinimum, ulp |-> 1]]
        ELSE [kind |-> k, guide |-> [g |-> "none"]]

parseBooleanSchema(d) == [kind |-> "boolean", guide |-> [g |-> "none"]]

(***************************************************************************)
(* The operators below give the SET of outcomes a call can have: a call    *)
(* that iterates a Swift Dictionary meets its keys in an unspecified       *)
(* order, so when several properties fail, the error thrown is that of     *)
(* whichever comes first.  An outcome is the value returned or the error   *)
(* thrown.                                                                 *)
(***************************************************************************)
Errors(S) == {r \in S : IsErr(r)}

\* the ways to take one outcome from each set of a family of outcome sets
OneOfEach(sets) ==
    {c \in [DOMAIN sets -> UNION Range(sets)] : \A k \in DOMAIN sets : c[k] \in sets[k]}

\* line 492
PropertyNotObject(p) == InvalidSchema("Property " \o p \o " schema must be an object")

\* line 480; t is "unknown" for a description without a type tag
UnsupportedType(t) ==
    InvalidSchema("Unsupported schema type: " \o t
                  \o ". Supported types: object, array, string, number, integer, boolean")

RECURSIVE parseDynamicSchema(_)

\* `properties` is a dictionary name -> schema, iterated in an unspecified
\* order (line 490): the loop throws at the first failing property it
\* meets, which can be any of the failing ones.
\* a translation in which the absent `required` list makes every property required
parseObjectSchemaAllRequired(d) ==
    LET props == IF Has(d, "properties") THEN d.properties ELSE <<>>
        nested == [p \in DOMAIN props |->
                     IF IsScalar(props[p])
                     THEN {PropertyNotObject(p)}
                     ELSE parseDynamicSchema(props[p])]
        failing == {p \in DOMAIN props : Errors(nested[p]) # {}}
    IN  IF failing # {}
        THEN UNION {Errors(nested[p]) : p \in failing}
        ELSE {[kind |-> "object",
               name |-> IF Has(d, "title") THEN d.title ELSE "",
               properties |-> [p \in DOMAIN props |->
                                  [name |-> p,
                                   schema |-> c[p],
                                   isOptional |-> Has(d, "required") /\ ~(p \in d.required)]]] :
              c \in OneOfEach(nested)}

parseObjectSchema(d) ==
    LET props == IF Has(d, "properties") THEN d.properties ELSE <<>>
        requiredFields == IF Has(d, "required") THEN d.required ELSE {}
        nested == [p \in DOMAIN props |->
                     IF IsScalar(props[p])
                     THEN {PropertyNotObject(p)}
                     ELSE parseDynamicSchema(props[p])]
        failing == {p \in DOMAIN props : Errors(nested[p]) # {}}
    IN  IF failing # {}
        THEN UNION {Errors(nested[p]) : p \in failing}
        ELSE {[kind |-> "object",
               name |-> IF Has(d, "title") THEN d.title ELSE "",
               properties |-> [p \in DOMAIN props |->
                                  [name |-> p,
                                   schema |-> c[p],
                                   isOptional |-> ~(p \in requiredFields)]]] :
              c \in OneOfEach(nested)}

\* a translation that keeps an array whose item failed to translate
parseArraySchemaKeepingFailedItem(d) ==
    IF ~Has(d, "items") \/ IsScalar(d.items)
    THEN {InvalidSchema("Array schema must have items definition")}
    ELSE {[kind |-> "array", arrayOf |-> item,
           minimumElements |-> IF Has(d, "minItems") THEN <<d.minItems>> ELSE <<>>,
           maximumElements |-> IF Has(d, "maxItems") THEN <<d.maxItems>> ELSE <<>>] :
          item \in parseDynamicSchema(d.items)}

parseArraySchema(d) ==
    IF ~Has(d, "items") \/ IsScalar(d.items)
    THEN {InvalidSchema("Array schema must have items definition")}
    ELSE LET items == parseDynamicSchema(d.items)
         IN  IF Errors(items) # {} THEN Errors(items)
             ELSE {[kind |-> "array", arrayOf |-> item,
                    minimumElements |-> IF Has(d, "minItems") THEN <<d.minItems>> ELSE <<>>,
                    maximumElements |-> IF Has(d, "maxItems") THEN <<d.maxItems>> ELSE <<>>] :
                   item \in items}

\* `anyOf` is an array: `map` (line 460) throws at the first element, in list
\* order, that fails
parseDynamicSchema(d) ==
    IF Has(d, "anyOf") /\ IsDictionaryList(d.anyOf)
    THEN LET parsed == [i \in 1..Len(d.anyOf) |-> parseDynamicSchema(d.anyOf[i])]
             failing == {i \in 1..Len(d.anyOf) : Errors(parsed[i]) # {}}
         IN  IF failing # {}
             THEN Errors(parsed[CHOOSE i \in failing : \A j \in failing : i <= j])
             ELSE {[kind |-> "union",
                    name |-> IF Has(d, "title") THEN d.title ELSE "",
                    anyOf |-> c] : c \in OneOfEach(parsed)}
    ELSE IF ~Has(d, "type") THEN {UnsupportedType("unknown")}
    ELSE IF d.type = "object" THEN parseObjectSchema(d)
    ELSE IF d.type = "array" THEN parseArraySchema(d)
    ELSE IF d.type = "string" THEN {parseStringSchema(d)}
    ELSE IF d.type \in {"number", "integer"} THEN {parseNumberSchema(d)}
    ELSE IF d.type = "boolean" THEN {parseBooleanSchema(d)}
    ELSE {UnsupportedType(d.type)}

(***************************************************************************)
(* GenerationSchema(root:dependencies:) of FoundationModels (line 453), a  *)
(* throwing initializer.  Its documented errors, GenerationSchema.         *)
(* SchemaError, are: emptyTypeChoices (an anyOf without member),           *)
(* duplicateType (two subschemas of one type name), duplicateProperty and  *)
(* undefinedReferences.  The last two cannot arise here: property names    *)
(* are the keys of a dictionary, and the parser builds no reference.  A    *)
(* tree with a union without member is rejected.  Whether two object or    *)
(* union nodes of one name (e.g. both untitled, so named "") count as      *)
(* duplicate types is not settled by the source: both outcomes are kept.   *)
(***************************************************************************)
SchemaError(c) == [err |-> "schemaError", msg |-> c]

RECURSIVE TypeNames(_)
\* the names of the object and union nodes of a tree, one per node
TypeNames(n) ==
    IF IsErr(n) THEN <<>>
    ELSE IF n.kind = "object"
    THEN LET ps == DOMAIN n.properties
             RECURSIVE Join(_)
             Join(S) == IF S = {} THEN <<>>
                        ELSE LET p == CHOOSE q \in S : TRUE
                             IN  TypeNames(n.properties[p].schema) \o Join(S \ {p})
         IN  <<n.name>> \o Join(ps)
    ELSE IF n.kind = "union"
    THEN LET RECURSIVE JoinSeq(_)
             JoinSeq(i) == IF i > Len(n.anyOf) THEN <<>>
                           ELSE TypeNames(n.anyOf[i]) \o JoinSeq(i + 1)
         IN  <<n.name>> \o JoinSeq(1)
    ELSE IF n.kind = "array" THEN TypeNames(n.arrayOf)
    ELSE <<>>

RECURSIVE HasEmptyUnion(_)
HasEmptyUnion(n) ==
    IF IsErr(n) THEN FALSE
    ELSE IF n.kind = "object"
    THEN \E p \in DOMAIN n.properties : HasEmptyUnion(n.properties[p].schema)
    ELSE IF n.kind = "union"
    THEN Len(n.anyOf) = 0 \/ \E i \in 1..Len(n.anyOf) : HasEmptyUnion(n.anyOf[i])
    ELSE IF n.kind = "array" THEN HasEmptyUnion(n.arrayOf)
    ELSE FALSE

HasDuplicateType(n) == Len(TypeNames(n)) > Cardinality(Range(TypeNames(n)))

GenerationSchemaInit(root) ==
    IF HasEmptyUnion(root) THEN {SchemaError("emptyTypeChoices")}
    ELSE IF HasDuplicateType(root) THEN {root, SchemaError("duplicateType")}
    ELSE {root}

\* lines 452-453: the parser, then the initializer on the tree it returned,
\* keeping what each of the two made: `root` is what parseDynamicSchema returned
\* or threw, `schema` what the call as a whole returned or threw
Translation(d) ==
    UNION {{[root |-> root, schema |-> schema] :
            schema \in IF IsErr(root) THEN {root} ELSE GenerationSchemaInit(root)} :
           root \in parseDynamicSchema(d)}

createGenerationSchema(d) == {t.schema : t \in Translation(d)}

(***************************************************************************)
(* Request construction: tools, transcript, options                        *)
(***************************************************************************)

\* JSITool.init: throws what createGenerationSchema throws
JSITool(toolId, name, description, parameters) ==
    {IF IsErr(schema) THEN schema
     ELSE [toolId |-> toolId, name |-> name, description |-> description,
           parameters |-> schema] :
     schema \in createGenerationSchema(parameters)}

\* The guard of lines 304-308.  `as? String` fails for a missing key and for
\* a value that is not a String; `as? String?` and `as? [String: Any]?`
\* accept a missing key and fail only for a value of another type.  A
\* description is tagged: [s |-> "text"] is a String.
ValidToolDefinition(toolDef) ==
    /\ Has(toolDef, "id") /\ Has(toolDef, "name")
    /\ Has(toolDef, "description") => Has(toolDef.description, "s")
    /\ Has(toolDef, "inputSchema") => ~IsScalar(toolDef.inputSchema)

\* line 308; the text ends with a dump of the whole tool list
InvalidToolDefinition == InvalidSchema("Invalid tool definition")

\* what JSITool.init can make of one descriptor that passed the guard
ToolOf(toolDef) ==
    JSITool(toolDef.id, toolDef.name,
            IF Has(toolDef, "description") THEN toolDef.description.s ELSE "",
            IF Has(toolDef, "inputSchema") THEN toolDef.inputSchema ELSE <<>>)

RECURSIVE appendToolsSkippingBad(_, _)
appendToolsSkippingBad(toolsDict, tools) ==
    IF Len(toolsDict) = 0 THEN {[tools |-> tools]}
    ELSE IF ~ValidToolDefinition(toolsDict[1])
    THEN appendToolsSkippingBad(Tail(toolsDict), tools)
    ELSE UNION {IF IsErr(tool) THEN appendToolsSkippingBad(Tail(toolsDict), tools)
                ELSE appendToolsSkippingBad(Tail(toolsDict), Append(tools, tool)) :
                tool \in ToolOf(toolsDict[1])}

RECURSIVE appendTools(_, _)
\* the loop of lines 303-319 over the descriptors left, `tools` being built so
\* far: it throws at the first descriptor, in list order, that fails
appendTools(toolsDict, tools) ==
    IF Len(toolsDict) = 0 THEN {[tools |-> tools]}
    ELSE IF ~ValidToolDefinition(toolsDict[1])
    THEN {InvalidToolDefinition}
    ELSE UNION {IF IsErr(tool) THEN {tool}
                ELSE appendTools(Tail(toolsDict), Append(tools, tool)) :
                tool \in ToolOf(toolsDict[1])}

\* a construction that skips a descriptor it cannot build a tool from
createToolsSkippingBad(options) ==
    IF ~Has(options, "tools") \/ ~IsDictionaryList(options.tools) THEN {[tools |-> <<>>]}
    ELSE appendToolsSkippingBad(options.tools, <<>>)

\* `options["tools"] as? [[String: Any]]` (line 297): without the key, or
\* with a list one of whose elements is no dictionary, there are no tools
createTools(options) ==
    IF ~Has(options, "tools") \/ ~IsDictionaryList(options.tools) THEN {[tools |-> <<>>]}
    ELSE appendTools(options.tools, <<>>)

InvalidMessage(m) == [err |-> "invalidMessage", msg |-> m]

RECURSIVE transcriptEntries(_, _)

\* the loop over messages.dropLast(): [entries |-> the entries], or the first error
transcriptEntries(msgs, tools) ==
    IF Len(msgs) = 0 THEN [entries |-> <<>>]
    ELSE LET message == msgs[1]
             rest == transcriptEntries(Tail(msgs), tools)
         IN  IF ~Has(message, "role") \/ ~Has(message, "content")
             THEN InvalidMessage("Message must have role and content")
             ELSE IF message.role \notin {"system", "user", "assistant"}
             THEN InvalidMessage(message.role)
             ELSE IF IsErr(rest) THEN rest
             ELSE LET entry ==
                        IF message.role = "system"
                        THEN [entry |-> "instructions", content |-> message.content,
                              toolDefinitions |-> [i \in 1..Len(tools) |->
                                  [name |-> tools[i].name,
                                   description |-> tools[i].description,
                                   parameters |-> tools[i].parameters]]]
                        ELSE IF message.role = "user"
                        THEN [entry |-> "prompt", content |-> message.content]
                        ELSE [entry |-> "response", content |-> message.content]
                  IN  [entries |-> <<entry>> \o rest.entries]

\* a builder that also keeps the trailing user message as a transcript entry
createTranscriptAndPromptKeepingLast(messages, tools) ==
    IF Len(messages) = 0
    THEN InvalidMessage("Messages array cannot be empty")
    ELSE LET lastMessage == messages[Len(messages)]
         IN  IF ~Has(lastMessage, "role") \/ ~Has(lastMessage, "content")
                \/ lastMessage.role # "user"
             THEN InvalidMessage("Last message must be from user role")
             ELSE LET entries == transcriptEntries(messages, tools)
                  IN  IF IsErr(entries) THEN entries
                      ELSE [transcript |-> entries.entries, userPrompt |-> lastMessage.content]

\* a builder that takes the last message as the prompt whatever its role is
createTranscriptAndPromptAnyLast(messages, tools) ==
    IF Len(messages) = 0
    THEN InvalidMessage("Messages array cannot be empty")
    ELSE LET lastMessage == messages[Len(messages)]
         IN  IF ~Has(lastMessage, "role") \/ ~Has(lastMessage, "content")
             THEN InvalidMessage("Last message must be from user role")
             ELSE LET entries == transcriptEntries(SubSeq(messages, 1, Len(messages) - 1), tools)
                  IN  IF IsErr(entries) THEN entries
                      ELSE [transcript |-> entries.entries, userPrompt |-> lastMessage.content]

createTranscriptAndPrompt(messages, tools) ==
    IF Len(messages) = 0
    THEN InvalidMessage("Messages array cannot be empty")
    ELSE LET lastMessage == messages[Len(messages)]
         IN  IF ~Has(lastMessage, "role") \/ ~Has(lastMessage, "content")
                \/ lastMessage.role # "user"
             THEN InvalidMessage("Last message must be from user role")
             ELSE LET entries == transcriptEntries(SubSeq(messages, 1, Len(messages) - 1), tools)
                  IN  IF IsErr(entries) THEN entries
                      ELSE [transcript |-> entries.entries, userPrompt |-> lastMessage.content]

\* a builder that lets topP win silently when topK is supplied as well
createGenerationOptionsTopPWins(options) ==
    [sampling |-> IF Has(options, "topP") THEN [mode |-> "probabilityThreshold", v |-> options.topP]
                  ELSE IF Has(options, "topK") THEN [mode |-> "top", v |-> options.topK]
                  ELSE [mode |-> "greedy"],
     temperature |-> IF Has(options, "temperature") THEN <<options.temperature>> ELSE <<>>,
     maximumResponseTokens |-> IF Has(options, "maxTokens") THEN <<options.maxTokens>> ELSE <<>>]

createGenerationOptions(options) ==
    IF Has(options, "topP") /\ Has(options, "topK")
    THEN [err |-> "conflictingSamplingMethods", msg |-> ""]
    ELSE [sampling |-> IF Has(options, "topP") THEN [mode |-> "probabilityThreshold", v |-> options.topP]
                       ELSE IF Has(options, "topK") THEN [mode |-> "top", v |-> options.topK]
                       ELSE [mode |-> "greedy"],
          temperature |-> IF Has(options, "temperature") THEN <<options.temperature>> ELSE <<>>,
          maximumResponseTokens |-> IF Has(options, "maxTokens") THEN <<options.maxTokens>> ELSE <<>>]

\* `options["schema"] as? [String: Any]` (lines 69, 120)
HasSchema(options) == Has(options, "schema") /\ ~IsScalar(options.schema)

\* The `do` block of both task bodies up to the model call, keeping what each
\* step returned or threw; a step after the first throw is not reached, and
\* `result` is the first error thrown, or [ok |-> TRUE, ...] when nothing throws.
NotReached == [step |-> "notReached"]

Built(messages, options) ==
    UNION {
        LET tp == IF IsErr(built) THEN NotReached
                  ELSE createTranscriptAndPrompt(messages, built.tools)
            go == IF tp = NotReached \/ IsErr(tp) THEN NotReached
                  ELSE createGenerationOptions(options)
            schemas == IF go = NotReached \/ IsErr(go) THEN {NotReached}
                       ELSE IF HasSchema(options) THEN createGenerationSchema(options.schema)
                       ELSE {[kind |-> "none"]}
        IN  {[step |-> "done", tools |-> built, transcript |-> tp, options |-> go, schema |-> gs,
              result |-> IF IsErr(built) THEN built
                         ELSE IF IsErr(tp) THEN tp
                         ELSE IF IsErr(go) THEN go
                         ELSE IF IsErr(gs) THEN gs
                         ELSE [ok |-> TRUE, hasTools |-> Len(built.tools) > 0,
                               structured |-> HasSchema(options)]] :
             gs \in schemas} :
        built \in createTools(options)}

\* the outcomes of the block: the first throw in source order, or success
Construct(messages, options) == {b.result : b \in Built(messages, options)}

(***************************************************************************)
(* JSITool.call: what the callback closure does with the host's            *)
(* (result, error) pair.  result is "nil", "string", "json" (an array or   *)
(* dictionary JSONSerialization accepts) or "opaque" (any other value: a   *)
(* number, a date, a container holding one).                               *)
(* JSONSerialization.data(withJSONObject:) does not throw a Swift error    *)
(* for an object that is not a valid JSON object: it raises                *)
(* NSInvalidArgumentException, which `try?` (line 438) does not catch, so  *)
(* the process terminates.  The `else` branch of line 441 is reached by a  *)
(* nil result.                                                             *)
(***************************************************************************)
ToolResults == {"nil", "string", "json", "opaque"}

call(result, error) ==
    IF error THEN [throwing |-> "toolCallError"]
    ELSE IF result = "string" THEN [returning |-> "verbatim"]
    ELSE IF result = "nil" THEN [throwing |-> "unknownToolCallError"]
    ELSE IF result = "json" THEN [returning |-> "jsonString"]
    ELSE [trapping |-> "NSInvalidArgumentException"]

(***************************************************************************)
(* Requests offered to the entry points                                    *)
(***************************************************************************)
SystemMsg == [role |-> "system", content |-> "be brief"]
UserMsg == [role |-> "user", content |-> "hello"]
AssistantMsg == [role |-> "assistant", content |-> "hi"]
ToolRoleMsg == [role |-> "tool", content |-> "42"]

WeatherTool == [id |-> "t1", name |-> "getWeather", description |-> [s |-> "weather"],
                inputSchema |-> [type |-> "object",
                                 properties |-> [city |-> [type |-> "string"]],
                                 required |-> {"city"}]]
BadSchemaTool == [id |-> "t2", name |-> "lookup",
                  inputSchema |-> [type |-> "object",
                                   properties |-> [n |-> [type |-> "integer", multipleOf |-> 4]]]]

RequestNames == {"tools", "schema", "empty", "lastAssistant",
                 "unknownRole", "bothSampling", "badTool", "badSchema"}

Request(n) ==
    CASE n = "tools" -> [messages |-> <<SystemMsg, UserMsg>>,
                         options |-> [tools |-> <<WeatherTool>>, temperature |-> 1]]
      [] n = "schema" -> [messages |-> <<UserMsg, AssistantMsg, UserMsg>>,
                          options |-> [schema |-> [type |-> "object",
                                                   properties |-> [answer |-> [type |-> "string"]]],
                                       topK |-> 40]]
      [] n = "empty" -> [messages |-> <<>>, options |-> <<>>]
      [] n = "lastAssistant" -> [messages |-> <<UserMsg, AssistantMsg>>, options |-> <<>>]
      [] n = "unknownRole" -> [messages |-> <<ToolRoleMsg, UserMsg>>, options |-> <<>>]
      [] n = "bothSampling" -> [messages |-> <<UserMsg>>, options |-> [topP |-> 9, topK |-> 40]]
      [] n = "badTool" -> [messages |-> <<SystemMsg, UserMsg>>,
                           options |-> [tools |-> <<WeatherTool, BadSchemaTool>>]]
      [] n = "badSchema" -> [messages |-> <<UserMsg>>, options |-> [schema |-> [type |-> "null"]]]

(***************************************************************************)
(* Messages, options and tool descriptors offered to the construction      *)
(* steps.  Content, id and name are Strings, temperature and topP are      *)
(* Doubles (kept as tenths), maxTokens and topK are Ints: for these a key  *)
(* whose cast fails is offered as a missing key.  The description and the  *)
(* inputSchema of a tool, and the elements of the tool list, are also      *)
(* offered with values of other types.                                     *)
(***************************************************************************)
MaxMessages == 3

NoContentMsg == [role |-> "assistant"]

Messages == {SystemMsg, UserMsg, AssistantMsg, ToolRoleMsg, NoContentMsg}

MessageLists == UNION {[1..n -> Messages] : n \in 0..MaxMessages}

SearchTool == [id |-> "t3", name |-> "search", description |-> [s |-> "search the web"],
               inputSchema |-> [type |-> "object", properties |-> [q |-> [type |-> "string"]]]]
NoSchemaTool == [id |-> "t4", name |-> "now", description |-> [s |-> "the time"]]
NoIdTool == [name |-> "anonymous", inputSchema |-> [type |-> "object"]]
NoNameTool == [id |-> "t5", inputSchema |-> [type |-> "object"]]
\* a description that is a number, an inputSchema that is a String
BadDescriptionTool == [id |-> "t6", name |-> "count", description |-> [n |-> 5],
                       inputSchema |-> [type |-> "object"]]
ScalarSchemaTool == [id |-> "t7", name |-> "flag", description |-> [s |-> "a flag"],
                     inputSchema |-> [s |-> "object"]]
\* two object nodes without a title, hence of one name
NestedSchemaTool == [id |-> "t8", name |-> "book", description |-> [s |-> "book a trip"],
                     inputSchema |-> [type |-> "object",
                                      properties |-> [trip |-> [type |-> "object"]]]]

\* tool lists; "absent" stands for options without the key `tools`
ToolChoices == {"absent", "none", "one", "two", "badSchema", "noSchema",
                "oneNoSchema", "noSchemaOne", "noId", "noName",
                "badDescription", "scalarSchema", "nested", "notDescriptors", "noIdNotDescriptor"}

ToolList(c) ==
    CASE c = "none" -> <<>>
      [] c = "one" -> <<WeatherTool>>
      [] c = "two" -> <<WeatherTool, SearchTool>>
      [] c = "badSchema" -> <<WeatherTool, BadSchemaTool>>
      [] c = "noSchema" -> <<NoSchemaTool>>
      [] c = "oneNoSchema" -> <<WeatherTool, NoSchemaTool>>
      [] c = "noSchemaOne" -> <<NoSchemaTool, WeatherTool>>
      [] c = "noId" -> <<NoIdTool, WeatherTool>>
      [] c = "noName" -> <<WeatherTool, NoNameTool>>
      [] c = "badDescription" -> <<WeatherTool, BadDescriptionTool>>
      [] c = "scalarSchema" -> <<ScalarSchemaTool, WeatherTool>>
      [] c = "nested" -> <<NestedSchemaTool, SearchTool>>
      [] c = "notDescriptors" -> <<WeatherTool, [s |-> "search"]>>
      [] c = "noIdNotDescriptor" -> <<NoIdTool, [n |-> 5]>>

OptionKeys == {"temperature", "maxTokens", "topP", "topK"}

OptionValue(k) ==
    CASE k = "temperature" -> 7
      [] k = "maxTokens" -> 256
      [] k = "topP" -> 9
      [] k = "topK" -> 40
      [] k = "schema" -> [type |-> "object", properties |-> [answer |-> [type |-> "string"]]]

BuildOptions(K, c) ==
    [k \in K \cup (IF c = "absent" THEN {} ELSE {"tools"}) |->
        IF k = "tools" THEN ToolList(c) ELSE OptionValue(k)]

BuildInput(m, K, c) == [messages |-> m, options |-> BuildOptions(K, c)]

(***************************************************************************)
(* Schema descriptions offered to createGenerationSchema                   *)
(***************************************************************************)
BoundKeywords == {"maximum", "minimum", "exclusiveMaximum", "exclusiveMinimum"}

ValueChoices == {"whole", "half", "negativeHalf"}

\* the value (as 2x) each numeric keyword carries in the descriptions below:
\* 7, 3, 10, 0, 2 / 7.5, 3.5, 10.5, 0.5, 0.5 / -2.5, -7.5, -0.5, -10.5, 1.5
KeywordValue(k, f) ==
    CASE k = "maximum" -> (CASE f = "whole" -> 14 [] f = "half" -> 15 [] OTHER -> -5)
      [] k = "minimum" -> (CASE f = "whole" -> 6 [] f = "half" -> 7 [] OTHER -> -15)
      [] k = "exclusiveMaximum" -> (CASE f = "whole" -> 20 [] f = "half" -> 21 [] OTHER -> -1)
      [] k = "exclusiveMinimum" -> (CASE f = "whole" -> 0 [] f = "half" -> 1 [] OTHER -> -21)
      [] k = "multipleOf" -> (CASE f = "whole" -> 4 [] f = "half" -> 1 [] OTHER -> 3)

\* an enum list of Strings (what `as? [String]` accepts) and one of numbers
\* (the elements of a list are kept as themselves)
EnumOf(e) == IF e = "strings" THEN <<[s |-> "1"], [s |-> "2"]>> ELSE <<[n |-> 1], [n |-> 2]>>

EnumChoices == {"none", "strings", "numbers"}

NumberSchema(t, K, e, f) ==
    [k \in K \cup {"type"} \cup (IF e = "none" THEN {} ELSE {"enum"}) |->
        CASE k = "type" -> t
          [] k = "enum" -> EnumOf(e)
          [] OTHER -> KeywordValue(k, f)]

NumberSchemas ==
    {NumberSchema(t, K, e, f) : t \in {"number", "integer"},
                                K \in SUBSET (BoundKeywords \cup {"multipleOf"}),
                                e \in EnumChoices, f \in ValueChoices}

PatternChoices == {"none", "valid", "invalid", "number"}

PatternOf(p) == IF p = "valid" THEN [src |-> "[a-z]+", valid |-> TRUE]
                ELSE IF p = "invalid" THEN [src |-> "[a-", valid |-> FALSE]
                ELSE [n |-> 5]

StringSchema(e, p) ==
    [k \in {"type"} \cup (IF e = "none" THEN {} ELSE {"enum"})
                    \cup (IF p = "none" THEN {} ELSE {"pattern"}) |->
        CASE k = "type" -> "string"
          [] k = "enum" -> EnumOf(e)
          [] k = "pattern" -> PatternOf(p)]

StringSchemas == {StringSchema(e, p) : e \in EnumChoices, p \in PatternChoices}

\* property maps: none, an empty one, sound ones, one with a property of an
\* unsupported type, one with a property whose schema is not a dictionary and
\* two with two failing properties
PropertyChoices == {"none", "empty", "a", "ab", "badType", "scalar", "twoBad", "twoBadNested"}

PropertiesOf(c) ==
    CASE c = "empty" -> <<>>
      [] c = "a" -> [a |-> [type |-> "string"]]
      [] c = "ab" -> [a |-> [type |-> "string"], b |-> [type |-> "integer", minimum |-> 6]]
      [] c = "badType" -> [a |-> [type |-> "string"], b |-> [type |-> "null"]]
      [] c = "scalar" -> [a |-> [s |-> "string"]]
      [] c = "twoBad" -> [a |-> [s |-> "x"], b |-> [type |-> "null"]]
      [] c = "twoBadNested" -> [a |-> [type |-> "integer", multipleOf |-> 4],
                                b |-> [type |-> "string", pattern |-> PatternOf("invalid")]]

RequiredChoices == {{"none"}} \cup {{"list"} \cup R : R \in SUBSET {"a", "b", "c"}}

ObjectSchema(c, R) ==
    [k \in {"type"} \cup (IF c = "none" THEN {} ELSE {"properties"})
                    \cup (IF "list" \in R THEN {"required"} ELSE {}) |->
        CASE k = "type" -> "object"
          [] k = "properties" -> PropertiesOf(c)
          [] k = "required" -> R \ {"list"}]

ObjectSchemas == {ObjectSchema(c, R) : c \in PropertyChoices, R \in RequiredChoices}

OtherSchemas ==
    {[type |-> "boolean"],
     [type |-> "null"],
     [title |-> "untyped"],
     [type |-> "array"],
     [type |-> "array", items |-> [type |-> "string"]],
     [type |-> "array", items |-> [type |-> "integer", maximum |-> 14], minItems |-> 1, maxItems |-> 4],
     [type |-> "array", items |-> [type |-> "null"]],
     [anyOf |-> <<[type |-> "string"], [type |-> "integer"]>>],
     [type |-> "null", anyOf |-> <<[type |-> "boolean"]>>, title |-> "either"],
     [type |-> "string", anyOf |-> <<[type |-> "string"], [type |-> "null"]>>],
     [type |-> "string", anyOf |-> <<[type |-> "string"], [s |-> "true"]>>],
     [anyOf |-> <<[s |-> "true"]>>],
     [anyOf |-> <<>>],
     [type |-> "boolean", anyOf |-> <<>>, title |-> "nothing"],
     [type |-> "array", items |-> [anyOf |-> <<>>]],
     [type |-> "object", properties |-> [trip |-> [type |-> "object"]]],
     [type |-> "object", title |-> "Trip",
      properties |-> [leg |-> [type |-> "object", title |-> "Leg"]]],
     [type |-> "object", title |-> "Trip",
      properties |-> [leg |-> [type |-> "object", title |-> "Trip"]]],
     [anyOf |-> <<[type |-> "object"], [type |-> "string"]>>],
     [anyOf |-> <<[type |-> "array", items |-> [type |-> "string"]],
                  [type |-> "object", properties |-> [a |-> [type |-> "boolean"]]]>>],
     [type |-> "object",
      properties |-> [list |-> [type |-> "array", items |-> [type |-> "number", multipleOf |-> 4]]]]}

SchemaInputs == NumberSchemas \cup StringSchemas \cup ObjectSchemas \cup OtherSchemas

\* generateStream is offered a request that constructs and calls tools and
\* one whose construction throws: a task body treats every throw of lines
\* 110-122 alike (line 144), and what each construction step throws is the
\* subject of SpecBuild
StreamRequests == {"tools", "empty"}

\* the callbacks a host makes for the tool call of a stream session: one
\* (result, error) pair for each outcome JSITool.call can have
ToolCallOutcomes == {call(result, error) : result \in ToolResults, error \in BOOLEAN}
StreamHostCalls ==
    {CHOOSE h \in [result : ToolResults, error : BOOLEAN] : call(h.result, h.error) = o :
        o \in ToolCallOutcomes}

\* the outcomes of the construction of each request offered
Constructions == [n \in RequestNames |-> Construct(Request(n).messages, Request(n).options)]

ConstructOf(n) == Constructions[n]

(***************************************************************************)
(* State                                                                   *)
(***************************************************************************)
Sessions == {"A", "B"}          \* the stream ids (UUIDs) generateStream mints, "A" first
UnknownId == "X"                \* an id generateStream never mints
TextRequests == {"T1", "T2"}    \* generateText calls

MaxChunks == 2      \* chunks a model stream yields at most
MaxToolCalls == 1   \* tool calls the model makes per generateText request at most

VARIABLES
    streamTasks,    \* keys of the dictionary streamTasks (the value of key s is the task of s)
    callerPc,       \* per stream id: where the generateStream call that minted it is
    taskPc,         \* per stream id: where the spawned Task body is
    req,            \* per stream id: the request the call was made with
    cancelled,      \* per stream id: Task.isCancelled of its task
    chunks,         \* per stream id: chunks the model stream has yielded
    errKind,        \* per stream id: the error being thrown to the catch block
    log,            \* per stream id: the events emitted with it, in order
    cancelLog,      \* per stream id: the cancelStream calls for it that have returned, in order
    cancelPc,       \* where the cancelStream call in progress is
    cancelId,       \* its argument
    toolCall,       \* per stream id: the latest call of JSITool.call for its session:
                    \* "none", "pending" (waits for the host), "resumed", or the
                    \* error it threw to the framework that the stream has not thrown yet
    crashed,        \* the process has trapped
    textPc,         \* per generateText call: where it is
    textReq,        \* per generateText call: its request
    textToolCalls,  \* per generateText call: tool calls the model has made
    signals,        \* per generateText call: the resolve / reject calls made, in order
    toolCallbacks,  \* per generateText call: times the host has invoked the callback of its latest tool call
    toolResumes,    \* per generateText call: times the continuation of its latest tool call was resumed
    toolOutcome,    \* per generateText call: the latest (result, error) of the host and what the closure did
    schemaIn,       \* the schema description handed to createGenerationSchema
    schemaRoot,     \* what parseDynamicSchema made of it (line 452)
    schemaOut,      \* what createGenerationSchema made of it (line 453)
    buildIn,        \* the (messages, options) pair handed to the `do` block of a task body
    buildOut,       \* what each construction step of the block made of it
    supported       \* whether the build has FoundationModels and the OS is iOS 26 or later

streamVars == <<streamTasks, callerPc, taskPc, req, cancelled, chunks,
                errKind, log, cancelLog, cancelPc, cancelId, toolCall>>
textVars == <<textPc, textReq, textToolCalls, signals, toolCallbacks, toolResumes, toolOutcome>>
schemaVars == <<schemaIn, schemaRoot, schemaOut>>
buildVars == <<buildIn, buildOut>>
vars == <<streamVars, crashed, textVars, schemaVars, buildVars, supported>>

NoOutcome == [result |-> "nil", error |-> FALSE, out |-> [none |-> TRUE]]

NotTranslated == [kind |-> "pending"]
NotBuilt == [step |-> "pending"]

\* no call has been made: the registry is empty
InitSessions ==
    /\ streamTasks = {}
    /\ callerPc = [s \in Sessions |-> "idle"]
    /\ taskPc = [s \in Sessions |-> "none"]
    /\ req = [s \in Sessions |-> "empty"]
    /\ cancelled = [s \in Sessions |-> FALSE]
    /\ chunks = [s \in Sessions |-> 0]
    /\ errKind = [s \in Sessions |-> "none"]
    /\ log = [s \in Sessions |-> <<>>]
    /\ cancelLog = [s \in Sessions |-> <<>>]
    /\ cancelPc = "idle"
    /\ cancelId = UnknownId
    /\ toolCall = [s \in Sessions |-> "none"]
    /\ crashed = FALSE
    /\ textPc = [r \in TextRequests |-> "idle"]
    /\ textReq = [r \in TextRequests |-> "empty"]
    /\ textToolCalls = [r \in TextRequests |-> 0]
    /\ signals = [r \in TextRequests |-> <<>>]
    /\ toolCallbacks = [r \in TextRequests |-> 0]
    /\ toolResumes = [r \in TextRequests |-> 0]
    /\ toolOutcome = [r \in TextRequests |-> NoOutcome]

\* `#if canImport(FoundationModels)` and `#available(iOS 26, *)` (lines 45-46,
\* 98-99) are settled by the build and the device: they hold for every call
\* of a run or for none
Init ==
    /\ InitSessions
    /\ supported \in BOOLEAN
    /\ schemaIn = [type |-> "boolean"]
    /\ schemaRoot = NotTranslated
    /\ schemaOut = NotTranslated
    /\ buildIn = Request("empty")
    /\ buildOut = NotBuilt

Emit(s, e) == log' = [log EXCEPT ![s] = Append(@, e)]

UpdateEv(k) == [ev |-> "update", chunk |-> k]
CompleteEv == [ev |-> "complete"]
ErrorEv(k) == [ev |-> "error", kind |-> k]
\* cancelStream(id) has returned; found tells whether its lookup found the task
CancelReturnedEv(found) == [ev |-> "cancelReturned", found |-> found]

\* cancelLog keeps, for each id, the first return of a cancelStream call that
\* found the task and the first return of one that did not
LogCancelReturn(l, found) ==
    IF CancelReturnedEv(found) \in Range(l) THEN l ELSE Append(l, CancelReturnedEv(found))

(***************************************************************************)
(* Access to the dictionary streamTasks.  No lock guards it: the           *)
(* subscript assignment of generateStream (line 153) runs on the calling   *)
(* thread, removeValue of a task body (line 149) on the cooperative pool,  *)
(* the lookup and removeValue of cancelStream (lines 168, 170) on the      *)
(* thread of its caller.  A thread that has reached one of these           *)
(* statements is an accessor.  An access that runs alone applies to the    *)
(* dictionary as it is.  Accesses that overlap are a data race: they take  *)
(* effect in some order (the single steps below, in any order), or some    *)
(* of the mutations overwrite the others (lost updates), or the process    *)
(* traps.                                                                  *)
(***************************************************************************)
Mutators ==
    {[th |-> "caller", key |-> s, insert |-> TRUE] : s \in {x \in Sessions : callerPc[x] = "spawned"}}
    \cup {[th |-> "task", key |-> s, insert |-> FALSE] : s \in {x \in Sessions : taskPc[x] = "cleanup"}}
    \cup (IF cancelPc = "cancelledTask"
          THEN {[th |-> "cancel", key |-> cancelId, insert |-> FALSE]} ELSE {})

Written(base, w) == IF w.insert THEN base \cup {w.key} ELSE base \ {w.key}

\* the mutations of W are over: their threads move on.  generateStream
\* returns the id after its assignment, the task body ends after its
\* removal, cancelStream returns after its removal.
Finish(W) ==
    /\ callerPc' = [s \in Sessions |->
                      IF [th |-> "caller", key |-> s, insert |-> TRUE] \in W
                      THEN "returned" ELSE callerPc[s]]
    /\ taskPc' = [s \in Sessions |->
                    IF [th |-> "task", key |-> s, insert |-> FALSE] \in W
                    THEN "done" ELSE taskPc[s]]
    /\ cancelPc' = IF \E w \in W : w.th = "cancel" THEN "idle" ELSE cancelPc
    /\ cancelId' = IF \E w \in W : w.th = "cancel" THEN UnknownId ELSE cancelId
    /\ cancelLog' = [s \in Sessions |->
                       IF [th |-> "cancel", key |-> s, insert |-> FALSE] \in W
                       THEN LogCancelReturn(cancelLog[s], TRUE)
                       ELSE cancelLog[s]]

\* a mutation that takes effect on the dictionary as it is
Mutate(w) ==
    /\ ~crashed
    /\ w \in Mutators
    /\ streamTasks' = Written(streamTasks, w)
    /\ Finish({w})
    /\ UNCHANGED <<req, cancelled, chunks, errKind, log, crashed, textVars, schemaVars, buildVars, supported, toolCall>>

\* what the dictionary can hold once the overlapping mutations of W are
\* over: some of them took effect (A), the others were overwritten; of the
\* mutations of one key that took effect, any may have been the last
RaceOutcomes(W) ==
    {T \in SUBSET Sessions :
        \E A \in (SUBSET W) \ {{}} :
            \A k \in Sessions :
                LET ws == {w \in A : w.key = k}
                IN  IF ws = {} THEN (k \in T) = (k \in streamTasks)
                    ELSE \E w \in ws : (k \in T) = w.insert}

\* two or more overlapping mutations (W), none of which trapped
RaceLostUpdate(W, T) ==
    /\ ~crashed
    /\ W \subseteq Mutators /\ Cardinality(W) >= 2
    /\ T \in RaceOutcomes(W)
    /\ streamTasks' = T
    /\ Finish(W)
    /\ UNCHANGED <<req, cancelled, chunks, errKind, log, crashed, textVars, schemaVars, buildVars, supported, toolCall>>

\* overlapping mutations corrupt the dictionary: the process traps
RaceTrap ==
    /\ ~crashed
    /\ Cardinality(Mutators) >= 2
    /\ crashed' = TRUE
    /\ UNCHANGED <<streamVars, textVars, schemaVars, buildVars, supported>>

(***************************************************************************)
(* generateStream (the calling thread; calls are made one after another)   *)
(***************************************************************************)
Before(s) == IF s = "A" THEN {} ELSE {"A"}

CanCall(s) ==
    /\ ~crashed
    /\ callerPc[s] = "idle"
    /\ \A e \in Before(s) : callerPc[e] # "idle"
    /\ \A e \in Sessions : callerPc[e] \in {"idle", "returned", "thrown"}

\* lines 156-160: the OS or the build does not support the model; the call
\* throws unsupportedOS: no id is minted, no event is emitted, no task spawned
GenerateStreamUnsupportedOS(s) ==
    /\ CanCall(s)
    /\ ~supported
    /\ callerPc' = [callerPc EXCEPT ![s] = "thrown"]
    /\ UNCHANGED <<streamTasks, taskPc, req, cancelled, chunks, errKind, log,
                   cancelPc, cancelId, cancelLog, crashed, textVars, schemaVars, buildVars, supported, toolCall>>

\* lines 102-104: the model is not available; onError(streamId, ...)
GenerateStreamUnavailable(s) ==
    /\ CanCall(s)
    /\ supported
    /\ callerPc' = [callerPc EXCEPT ![s] = "unavailable"]
    /\ Emit(s, ErrorEv("unavailable"))
    /\ UNCHANGED <<streamTasks, taskPc, req, cancelled, chunks, errKind,
                   cancelPc, cancelId, cancelLog, crashed, textVars, schemaVars, buildVars, supported, toolCall>>

\* line 105: return streamId
ReturnUnavailable(s) ==
    /\ ~crashed
    /\ callerPc[s] = "unavailable"
    /\ callerPc' = [callerPc EXCEPT ![s] = "returned"]
    /\ UNCHANGED <<streamTasks, taskPc, req, cancelled, chunks, errKind, log,
                   cancelLog, cancelPc, cancelId, crashed, textVars, schemaVars, buildVars, supported, toolCall>>

\* line 108: Task { ... } is created and starts on the cooperative pool
GenerateStreamSpawn(s, r) ==
    /\ CanCall(s)
    /\ supported
    /\ callerPc' = [callerPc EXCEPT ![s] = "spawned"]
    /\ taskPc' = [taskPc EXCEPT ![s] = "construct"]
    /\ req' = [req EXCEPT ![s] = r]
    /\ UNCHANGED <<streamTasks, cancelled, chunks, errKind, log,
                   cancelPc, cancelId, cancelLog, crashed, textVars, schemaVars, buildVars, supported, toolCall>>

\* lines 153-155: streamTasks[streamId] = task; return streamId
StoreTask(s) == Mutate([th |-> "caller", key |-> s, insert |-> TRUE])

(***************************************************************************)
(* The Task body of generateStream (lines 108-150)                         *)
(***************************************************************************)
TaskStep(s, from, to) ==
    /\ ~crashed
    /\ taskPc[s] = from
    /\ taskPc' = [taskPc EXCEPT ![s] = to]

\* lines 110-122: tools, transcript, options, schema
TaskConstruct(s) ==
    /\ ~crashed
    /\ taskPc[s] = "construct"
    /\ \E c \in ConstructOf(req[s]) :
          IF IsErr(c)
          THEN /\ taskPc' = [taskPc EXCEPT ![s] = "catch"]
               /\ errKind' = [errKind EXCEPT ![s] = c.err]
          ELSE /\ taskPc' = [taskPc EXCEPT ![s] = "stream"]
               /\ UNCHANGED errKind
    /\ UNCHANGED <<streamTasks, callerPc, req, cancelled, chunks, log,
                   cancelPc, cancelId, cancelLog, crashed, textVars, schemaVars, buildVars, supported, toolCall>>

\* lines 129 / 135: the stream yields the next chunk
StreamChunk(s) ==
    /\ TaskStep(s, "stream", "gotChunk")
    /\ chunks[s] < MaxChunks
    /\ chunks' = [chunks EXCEPT ![s] = @ + 1]
    /\ UNCHANGED <<streamTasks, callerPc, req, cancelled, errKind, log,
                   cancelPc, cancelId, cancelLog, crashed, textVars, schemaVars, buildVars, supported, toolCall>>

\* onUpdate handed to a concurrent queue: the event overtakes the earlier ones
EmitUpdateOvertaking(s) ==
    /\ TaskStep(s, "gotChunk", "stream")
    /\ log' = [log EXCEPT ![s] = <<UpdateEv(chunks[s])>> \o @]
    /\ UNCHANGED <<streamTasks, callerPc, req, cancelled, chunks, errKind,
                   cancelPc, cancelId, cancelLog, crashed, textVars, schemaVars, buildVars, supported, toolCall>>

\* lines 131 / 136: onUpdate(streamId, chunk)
EmitUpdate(s) ==
    /\ TaskStep(s, "gotChunk", "stream")
    /\ Emit(s, UpdateEv(chunks[s]))
    /\ UNCHANGED <<streamTasks, callerPc, req, cancelled, chunks, errKind,
                   cancelPc, cancelId, cancelLog, crashed, textVars, schemaVars, buildVars, supported, toolCall>>

\* the errors JSITool.call throws (lines 435, 442)
ToolErrors == {"toolCallError", "unknownToolCallError"}

\* the kinds of error the response stream throws to the for-await loop
ThrowKinds == {"model", "cancellation"} \cup ToolErrors

\* the for-await loop is left (lines 129-137): an error JSITool.call threw
\* that the stream has not thrown by then is not thrown to the task body any
\* more; its call stays a call the host has answered
StreamOver(s) ==
    toolCall' = [toolCall EXCEPT ![s] = IF @ \in ToolErrors THEN "resumed" ELSE @]

\* the stream ends: the for-await loop is left and line 141 reads
\* Task.isCancelled (`if !Task.isCancelled`)
StreamFinish(s) ==
    /\ TaskStep(s, "stream", IF cancelled[s] THEN "cleanup" ELSE "complete")
    /\ StreamOver(s)
    /\ UNCHANGED <<streamTasks, callerPc, req, cancelled, chunks, errKind, log,
                   cancelPc, cancelId, cancelLog, crashed, textVars, schemaVars, buildVars, supported>>

\* the stream throws and the task body reaches catch (line 144): a model
\* error at any time, CancellationError once the task is cancelled, the
\* error JSITool.call has thrown to the framework (lines 435, 442) once it
\* has thrown it
StreamThrow(s, k) ==
    /\ TaskStep(s, "stream", "catch")
    /\ k = "cancellation" => cancelled[s]
    /\ k \in ToolErrors => toolCall[s] = k
    /\ errKind' = [errKind EXCEPT ![s] = k]
    /\ StreamOver(s)
    /\ UNCHANGED <<streamTasks, callerPc, req, cancelled, chunks, log,
                   cancelPc, cancelId, cancelLog, crashed, textVars, schemaVars, buildVars, supported>>

\* The framework calls JSITool.call while the task body awaits the response
\* stream (lines 129-137): the call invokes the host and waits on its
\* continuation (lines 431-432).  The task body does not wait on the
\* continuation but on the stream, and nothing in this file says what the
\* stream does while a call is pending: StreamChunk, StreamFinish and
\* StreamThrow stay enabled.
StreamToolCall(s) ==
    /\ ~crashed
    /\ taskPc[s] = "stream"
    /\ toolCall[s] \in {"none", "resumed"}
    /\ \E c \in ConstructOf(req[s]) : ~IsErr(c) /\ c.hasTools
    /\ toolCall' = [toolCall EXCEPT ![s] = "pending"]
    /\ UNCHANGED <<streamTasks, callerPc, taskPc, req, cancelled, chunks, errKind, log,
                   cancelPc, cancelId, cancelLog, crashed, textVars, schemaVars, buildVars, supported>>

\* the host calls back (lines 432-444), on its own thread: the closure only
\* resumes the continuation, and JSITool.call returns or throws to the
\* framework, wherever the task body is.  The task body learns of an error
\* thrown to the framework when the stream it awaits throws it (StreamThrow),
\* in a later step; a stream that is over throws nothing.
StreamToolCallback(s, result, error) ==
    /\ ~crashed
    /\ toolCall[s] = "pending"
    /\ IF Has(call(result, error), "trapping")
       THEN /\ crashed' = TRUE
            /\ UNCHANGED toolCall
       ELSE /\ toolCall' = [toolCall EXCEPT ![s] =
                   IF Has(call(result, error), "throwing") /\ taskPc[s] \in {"stream", "gotChunk"}
                   THEN call(result, error).throwing
                   ELSE "resumed"]
            /\ UNCHANGED crashed
    /\ UNCHANGED <<streamTasks, callerPc, taskPc, req, cancelled, chunks, errKind, log,
                   cancelPc, cancelId, cancelLog, textVars, schemaVars, buildVars, supported>>

\* the host invokes the callback of the latest tool call of the session a
\* second time: the closure of lines 432-444 calls continuation.resume
\* again, and the continuation of withCheckedThrowingContinuation (line
\* 431), already resumed, traps
StreamToolCallbackAgain(s) ==
    /\ ~crashed
    /\ toolCall[s] \notin {"none", "pending"}
    /\ crashed' = TRUE
    /\ UNCHANGED <<streamTasks, callerPc, taskPc, req, cancelled, chunks, errKind, log, toolCall,
                   cancelPc, cancelId, cancelLog, textVars, schemaVars, buildVars, supported>>

\* onComplete(streamId) followed by a throw inside the same `do` block
EmitCompleteThenThrow(s) ==
    /\ TaskStep(s, "complete", "catch")
    /\ Emit(s, CompleteEv)
    /\ UNCHANGED <<streamTasks, callerPc, req, cancelled, chunks, errKind,
                   cancelPc, cancelId, cancelLog, crashed, textVars, schemaVars, buildVars, supported, toolCall>>

\* line 142: onComplete(streamId)
EmitComplete(s) ==
    /\ TaskStep(s, "complete", "cleanup")
    /\ Emit(s, CompleteEv)
    /\ UNCHANGED <<streamTasks, callerPc, req, cancelled, chunks, errKind,
                   cancelPc, cancelId, cancelLog, crashed, textVars, schemaVars, buildVars, supported, toolCall>>

\* line 145: onError(streamId, error.localizedDescription)
EmitError(s) ==
    /\ TaskStep(s, "catch", "cleanup")
    /\ Emit(s, ErrorEv(errKind[s]))
    /\ UNCHANGED <<streamTasks, callerPc, req, cancelled, chunks, errKind,
                   cancelPc, cancelId, cancelLog, crashed, textVars, schemaVars, buildVars, supported, toolCall>>

\* line 149: self.streamTasks.removeValue(forKey: streamId); the task ends
Cleanup(s) == Mutate([th |-> "task", key |-> s, insert |-> FALSE])

(***************************************************************************)
(* cancelStream (lines 165-172), called by the consumer of the events      *)
(***************************************************************************)
\* a stream id is a fresh UUID: a consumer can pass it only after it was
\* returned or came with an event
Known(id) == IF id = UnknownId THEN TRUE ELSE log[id] # <<>> \/ callerPc[id] = "returned"

CanCancel(id) == ~crashed /\ cancelPc = "idle" /\ Known(id)

\* line 168: `if let task = streamTasks[id]` finds nothing; the call returns
CancelAbsent(id) ==
    /\ CanCancel(id)
    /\ id \notin streamTasks
    /\ cancelLog' = IF id \in Sessions
                    THEN [cancelLog EXCEPT ![id] = LogCancelReturn(@, FALSE)]
                    ELSE cancelLog
    /\ UNCHANGED <<streamTasks, callerPc, taskPc, req, cancelled, chunks, errKind, log,
                   cancelPc, cancelId, crashed, textVars, schemaVars, buildVars, supported, toolCall>>

\* line 168: the lookup finds the task
CancelPresent(id) ==
    /\ CanCancel(id)
    /\ id \in streamTasks
    /\ cancelId' = id
    /\ cancelPc' = "found"
    /\ UNCHANGED <<streamTasks, callerPc, taskPc, req, cancelled, chunks, errKind, log,
                   cancelLog, crashed, textVars, schemaVars, buildVars, supported, toolCall>>

\* line 168: the lookup reads the dictionary while another thread mutates it
CancelLookupRace(id) ==
    /\ CanCancel(id)
    /\ Mutators # {}
    /\ crashed' = TRUE
    /\ UNCHANGED <<streamVars, textVars, schemaVars, buildVars, supported>>

\* line 169: task.cancel()
CancelTask ==
    /\ ~crashed
    /\ cancelPc = "found"
    /\ cancelled' = [cancelled EXCEPT ![cancelId] = TRUE]
    /\ cancelPc' = "cancelledTask"
    /\ UNCHANGED <<streamTasks, callerPc, taskPc, req, chunks, errKind, log,
                   cancelId, cancelLog, crashed, textVars, schemaVars, buildVars, supported, toolCall>>

\* lines 170-172: streamTasks.removeValue(forKey: id); cancelStream returns
CancelRemove ==
    /\ cancelPc = "cancelledTask"
    /\ Mutate([th |-> "cancel", key |-> cancelId, insert |-> FALSE])

(***************************************************************************)
(* generateText (lines 38-89)                                              *)
(***************************************************************************)
Signal(r, sig) == signals' = [signals EXCEPT ![r] = Append(@, sig)]

\* lines 81-84 and 85-88: the OS or the build does not support the model;
\* reject("AppleLLM", ...) from the call itself, no Task
GenerateTextUnsupportedOS(r) ==
    /\ ~crashed
    /\ ~supported
    /\ textPc[r] = "idle"
    /\ textPc' = [textPc EXCEPT ![r] = "done"]
    /\ Signal(r, [sig |-> "reject", code |-> "AppleLLM"])
    /\ UNCHANGED <<streamVars, crashed, textReq, textToolCalls, toolCallbacks, toolResumes, toolOutcome, schemaVars, buildVars, supported>>

\* the guard's else branch without its `return`: reject, then the Task is spawned
GenerateTextUnavailableNoReturn(r) ==
    /\ ~crashed
    /\ supported
    /\ textPc[r] = "idle"
    /\ textPc' = [textPc EXCEPT ![r] = "construct"]
    /\ Signal(r, [sig |-> "reject", code |-> "MODEL_UNAVAILABLE"])
    /\ UNCHANGED <<streamVars, crashed, textReq, textToolCalls, toolCallbacks, toolResumes, toolOutcome, schemaVars, buildVars, supported>>

\* lines 47-54: the model is not available
GenerateTextUnavailable(r) ==
    /\ ~crashed
    /\ supported
    /\ textPc[r] = "idle"
    /\ textPc' = [textPc EXCEPT ![r] = "done"]
    /\ Signal(r, [sig |-> "reject", code |-> "MODEL_UNAVAILABLE"])
    /\ UNCHANGED <<streamVars, crashed, textReq, textToolCalls, toolCallbacks, toolResumes, toolOutcome, schemaVars, buildVars, supported>>

\* line 55: Task { ... }
GenerateTextSpawn(r, n) ==
    /\ ~crashed
    /\ supported
    /\ textPc[r] = "idle"
    /\ textPc' = [textPc EXCEPT ![r] = "construct"]
    /\ textReq' = [textReq EXCEPT ![r] = n]
    /\ UNCHANGED <<streamVars, crashed, textToolCalls, signals, toolCallbacks, toolResumes, toolOutcome, schemaVars, buildVars, supported>>

\* lines 57-70: tools, transcript, options, schema
TextConstruct(r) ==
    /\ ~crashed
    /\ textPc[r] = "construct"
    /\ \E c \in ConstructOf(textReq[r]) :
          textPc' = [textPc EXCEPT ![r] = IF IsErr(c) THEN "catch" ELSE "respond"]
    /\ UNCHANGED <<streamVars, crashed, textReq, textToolCalls, signals, toolCallbacks, toolResumes, toolOutcome, schemaVars, buildVars, supported>>

\* the model calls a tool while session.respond is awaited: JSITool.call
\* creates a checked continuation and hands the host a callback (lines 431-432)
TextToolCall(r) ==
    /\ ~crashed
    /\ textPc[r] = "respond"
    /\ \E c \in ConstructOf(textReq[r]) : ~IsErr(c) /\ c.hasTools
    /\ textToolCalls[r] < MaxToolCalls
    /\ textToolCalls' = [textToolCalls EXCEPT ![r] = @ + 1]
    /\ textPc' = [textPc EXCEPT ![r] = "tool"]
    /\ toolCallbacks' = [toolCallbacks EXCEPT ![r] = 0]
    /\ toolResumes' = [toolResumes EXCEPT ![r] = 0]
    /\ UNCHANGED <<streamVars, crashed, textReq, signals, toolOutcome, schemaVars, buildVars, supported>>

\* the host calls back (lines 432-444): the continuation is resumed
TextToolCallback(r, result, error) ==
    /\ ~crashed
    /\ textPc[r] = "tool"
    /\ toolCallbacks' = [toolCallbacks EXCEPT ![r] = @ + 1]
    /\ toolOutcome' = [toolOutcome EXCEPT ![r] =
                          [result |-> result, error |-> error, out |-> call(result, error)]]
    /\ IF Has(call(result, error), "trapping")
       THEN /\ crashed' = TRUE
            /\ UNCHANGED <<textPc, toolResumes>>
       ELSE /\ textPc' = [textPc EXCEPT ![r] =
                             IF Has(call(result, error), "throwing") THEN "catch" ELSE "respond"]
            /\ toolResumes' = [toolResumes EXCEPT ![r] = @ + 1]
            /\ UNCHANGED crashed
    /\ UNCHANGED <<streamVars, textReq, textToolCalls, signals, schemaVars, buildVars, supported>>

\* the host invokes the callback again and an unchecked continuation is
\* resumed a second time without a trap
TextToolCallbackAgainUnchecked(r) ==
    /\ ~crashed
    /\ toolCallbacks[r] = 1
    /\ toolCallbacks' = [toolCallbacks EXCEPT ![r] = @ + 1]
    /\ toolResumes' = [toolResumes EXCEPT ![r] = @ + 1]
    /\ UNCHANGED <<streamVars, crashed, textPc, textReq, textToolCalls, signals, toolOutcome, schemaVars, buildVars, supported>>

\* the host invokes the callback of a tool call a second time: the closure
\* of lines 432-444 calls continuation.resume again, and the continuation of
\* withCheckedThrowingContinuation (line 431), already resumed, traps
TextToolCallbackAgain(r) ==
    /\ ~crashed
    /\ toolCallbacks[r] = 1
    /\ toolCallbacks' = [toolCallbacks EXCEPT ![r] = @ + 1]
    /\ crashed' = TRUE
    /\ UNCHANGED <<streamVars, textPc, textReq, textToolCalls, signals, toolResumes, toolOutcome, schemaVars, buildVars, supported>>

\* resolve(...) followed by a throw inside the same `do` block
TextResolveThenThrow(r) ==
    /\ ~crashed
    /\ textPc[r] = "respond"
    /\ textPc' = [textPc EXCEPT ![r] = "catch"]
    /\ Signal(r, [sig |-> "resolve"])
    /\ UNCHANGED <<streamVars, crashed, textReq, textToolCalls, toolCallbacks, toolResumes, toolOutcome, schemaVars, buildVars, supported>>

\* lines 71-72 / 74-75: respond returns; resolve(response.toModelMessages())
TextResolve(r) ==
    /\ ~crashed
    /\ textPc[r] = "respond"
    /\ textPc' = [textPc EXCEPT ![r] = "done"]
    /\ Signal(r, [sig |-> "resolve"])
    /\ UNCHANGED <<streamVars, crashed, textReq, textToolCalls, toolCallbacks, toolResumes, toolOutcome, schemaVars, buildVars, supported>>

\* lines 71 / 74: session.respond throws
TextRespondThrow(r) ==
    /\ ~crashed
    /\ textPc[r] = "respond"
    /\ textPc' = [textPc EXCEPT ![r] = "catch"]
    /\ UNCHANGED <<streamVars, crashed, textReq, textToolCalls, signals, toolCallbacks, toolResumes, toolOutcome, schemaVars, buildVars, supported>>

\* lines 77-79: reject("AppleLLM", ...)
TextReject(r) ==
    /\ ~crashed
    /\ textPc[r] = "catch"
    /\ textPc' = [textPc EXCEPT ![r] = "done"]
    /\ Signal(r, [sig |-> "reject", code |-> "AppleLLM"])
    /\ UNCHANGED <<streamVars, crashed, textReq, textToolCalls, toolCallbacks, toolResumes, toolOutcome, schemaVars, buildVars, supported>>

(***************************************************************************)
(* Specifications                                                          *)
(***************************************************************************)
Ids == Sessions \cup {UnknownId}

\* the steps in which every access to streamTasks runs alone
NextSerial ==
    \/ \E s \in Sessions : GenerateStreamUnsupportedOS(s)
    \/ \E s \in Sessions : GenerateStreamUnavailable(s)
    \/ \E s \in Sessions : ReturnUnavailable(s)
    \/ \E s \in Sessions, r \in StreamRequests : GenerateStreamSpawn(s, r)
    \/ \E s \in Sessions : StoreTask(s)
    \/ \E s \in Sessions : TaskConstruct(s)
    \/ \E s \in Sessions : StreamChunk(s)
    \/ \E s \in Sessions : EmitUpdate(s)
    \/ \E s \in Sessions : StreamFinish(s)
    \/ \E s \in Sessions, k \in ThrowKinds : StreamThrow(s, k)
    \/ \E s \in Sessions : StreamToolCall(s)
    \/ \E s \in Sessions, h \in StreamHostCalls : StreamToolCallback(s, h.result, h.error)
    \/ \E s \in Sessions : StreamToolCallbackAgain(s)
    \/ \E s \in Sessions : EmitComplete(s)
    \/ \E s \in Sessions : EmitError(s)
    \/ \E s \in Sessions : Cleanup(s)
    \/ \E id \in Ids : CancelAbsent(id)
    \/ \E id \in Ids : CancelPresent(id)
    \/ CancelTask
    \/ CancelRemove

\* the behaviours in which no two accesses to streamTasks overlap
SpecSerial == Init /\ [][NextSerial]_vars

Next ==
    \/ NextSerial
    \/ \E id \in Ids : CancelLookupRace(id)
    \/ \E W \in {X \in SUBSET Mutators : Cardinality(X) >= 2} :
          \E T \in RaceOutcomes(W) : RaceLostUpdate(W, T)
    \/ RaceTrap

Spec == Init /\ [][Next]_vars

NextText ==
    \/ \E r \in TextRequests : GenerateTextUnsupportedOS(r)
    \/ \E r \in TextRequests : GenerateTextUnavailable(r)
    \/ \E r \in TextRequests, n \in RequestNames : GenerateTextSpawn(r, n)
    \/ \E r \in TextRequests : TextConstruct(r)
    \/ \E r \in TextRequests : TextToolCall(r)
    \/ \E r \in TextRequests, result \in ToolResults, error \in BOOLEAN : TextToolCallback(r, result, error)
    \/ \E r \in TextRequests : TextToolCallbackAgain(r)
    \/ \E r \in TextRequests : TextResolve(r)
    \/ \E r \in TextRequests : TextRespondThrow(r)
    \/ \E r \in TextRequests : TextReject(r)

SpecText == Init /\ [][NextText]_vars

\* both entry points: the generateText calls and one generateStream call
\* (the first id minted), on a supported OS or not, with the model available
\* or not at each call
NextEntry ==
    \/ NextText
    \/ GenerateStreamUnsupportedOS("A")
    \/ GenerateStreamUnavailable("A")
    \/ ReturnUnavailable("A")
    \/ \E r \in StreamRequests : GenerateStreamSpawn("A", r)
    \/ StoreTask("A")
    \/ TaskConstruct("A")
    \/ StreamChunk("A")
    \/ EmitUpdate("A")
    \/ StreamFinish("A")
    \/ StreamThrow("A", "model")
    \/ EmitComplete("A")
    \/ EmitError("A")
    \/ Cleanup("A")

SpecEntry == Init /\ [][NextEntry]_vars

\* one generateStream call (the first id minted) with its task, the host's
\* callbacks and the cancelStream calls for it; on an unsupported OS the call
\* throws and there is no session
NextLive ==
    \/ GenerateStreamUnsupportedOS("A")
    \/ GenerateStreamUnavailable("A")
    \/ ReturnUnavailable("A")
    \/ \E r \in StreamRequests : GenerateStreamSpawn("A", r)
    \/ StoreTask("A")
    \/ TaskConstruct("A")
    \/ StreamChunk("A")
    \/ EmitUpdate("A")
    \/ StreamFinish("A")
    \/ \E k \in ThrowKinds : StreamThrow("A", k)
    \/ StreamToolCall("A")
    \/ \E h \in StreamHostCalls : StreamToolCallback("A", h.result, h.error)
    \/ StreamToolCallbackAgain("A")
    \/ EmitComplete("A")
    \/ EmitError("A")
    \/ Cleanup("A")
    \/ CancelAbsent("A")
    \/ CancelPresent("A")
    \/ CancelLookupRace("A")
    \/ CancelTask
    \/ CancelRemove
    \/ \E W \in {X \in SUBSET Mutators : Cardinality(X) >= 2} :
          \E T \in RaceOutcomes(W) : RaceLostUpdate(W, T)
    \/ RaceTrap

\* The scheduling the code relies on: a thread that can take its next step
\* takes it (the calling thread, the task on the cooperative pool, the
\* cancelStream call).  Assumed of the environment: the model stream ends,
\* by finishing or throwing, however many chunks and tool calls come first,
\* and the host calls back for every tool call.
LiveFairness ==
    /\ WF_vars(ReturnUnavailable("A"))
    /\ WF_vars(StoreTask("A"))
    /\ WF_vars(TaskConstruct("A"))
    /\ WF_vars(EmitUpdate("A"))
    /\ WF_vars(EmitComplete("A"))
    /\ WF_vars(EmitError("A"))
    /\ WF_vars(Cleanup("A"))
    /\ WF_vars(CancelTask)
    /\ WF_vars(CancelRemove)
    /\ SF_vars(StreamFinish("A") \/ \E k \in ThrowKinds : StreamThrow("A", k))
    /\ WF_vars(\E h \in StreamHostCalls : StreamToolCallback("A", h.result, h.error))

SpecLive == Init /\ [][NextLive]_vars /\ LiveFairness

\* AppleLLMSchemaParser on its own: a description is handed to
\* createGenerationSchema (lines 451-454), which returns or throws; one of
\* the outcomes the call can have is taken
InitSchema ==
    /\ InitSessions
    /\ supported = TRUE
    /\ schemaIn \in SchemaInputs
    /\ schemaRoot = NotTranslated
    /\ schemaOut = NotTranslated
    /\ buildIn = Request("empty")
    /\ buildOut = NotBuilt

Translate ==
    /\ schemaOut = NotTranslated
    /\ \E t \in Translation(schemaIn) :
          /\ schemaRoot' = t.root
          /\ schemaOut' = t.schema
    /\ UNCHANGED <<streamVars, crashed, textVars, schemaIn, buildVars, supported>>

SpecSchema == InitSchema /\ [][Translate]_vars

\* The construction steps applied to one (messages, options) pair
InitBuild ==
    /\ InitSessions
    /\ supported = TRUE
    /\ schemaIn = [type |-> "boolean"]
    /\ schemaRoot = NotTranslated
    /\ schemaOut = NotTranslated
    /\ \E m \in MessageLists, K \in SUBSET (OptionKeys \cup {"schema"}), c \in ToolChoices :
          buildIn = BuildInput(m, K, c)
    /\ buildOut = NotBuilt

Build ==
    /\ buildOut = NotBuilt
    /\ buildOut' \in Built(buildIn.messages, buildIn.options)
    /\ UNCHANGED <<streamVars, crashed, textVars, schemaVars, buildIn, supported>>

SpecBuild == InitBuild /\ [][Build]_vars

TypeOK ==
    /\ streamTasks \subseteq Sessions
    /\ supported \in BOOLEAN
    /\ \A s \in Sessions : Len(log[s]) <= MaxChunks + 1 /\ Len(cancelLog[s]) <= 2

(***************************************************************************)
(* Reading the logs                                                        *)
(***************************************************************************)
TerminalKinds == {"complete", "error"}

\* positions in the log of s of the events of the given kinds
At(s, kinds) == {i \in 1..Len(log[s]) : log[s][i].ev \in kinds}

\* a cancelStream(s) call has returned / one that found the task of s has
CancelReturned(s) == cancelLog[s] # <<>>
FoundCancelReturned(s) == CancelReturnedEv(TRUE) \in Range(cancelLog[s])

\* the events of the given kinds that this step emits for s
Emitted(s, kinds) == {i \in (Len(log[s]) + 1)..Len(log'[s]) : log'[s][i].ev \in kinds}

(***************************************************************************)
(* Properties                                                              *)
(***************************************************************************)

\* C1: once the task of a streaming session has finished and generateStream
\* has returned its id, the id is not in the registry streamTasks.
C1_NoEntryAfterTaskEnd ==
    \A s \in Sessions :
        (taskPc[s] = "done" /\ callerPc[s] = "returned") => s \notin streamTasks

\* C2: once a cancelStream(id) call has returned, id is absent from the
\* registry, in that state and in every later one.
C2_AbsentAfterCancel ==
    \A s \in Sessions : CancelReturned(s) => s \notin streamTasks

\* C3: no onComplete of a session is emitted after a cancelStream call for
\* its id has returned (stated for the calls that found and cancelled the task).
C3_NoCompleteAfterCancel ==
    [][\A s \in Sessions : FoundCancelReturned(s) => Emitted(s, {"complete"}) = {}]_vars

\* C4: no onUpdate and no onError of a session is emitted after a cancelStream
\* call for its id has returned (stated for the calls that found and cancelled
\* the task).
C4_NoUpdateOrErrorAfterCancel ==
    [][\A s \in Sessions : FoundCancelReturned(s) => Emitted(s, {"update", "error"}) = {}]_vars

\* C5: a streaming session emits at most one terminal event (onComplete or
\* onError, never both), no onUpdate follows its terminal event, and a
\* session whose task was never cancelled has emitted exactly one terminal
\* event when its task has ended.
C5_OneTerminalEvent ==
    \A s \in Sessions :
        LET terminals == At(s, TerminalKinds)
            updates == At(s, {"update"})
        IN  /\ Cardinality(terminals) <= 1
            /\ \A t \in terminals, u \in updates : u < t
            /\ (taskPc[s] = "done" /\ ~cancelled[s]) => Cardinality(terminals) = 1

\* a task that was never cancelled has ended after an update and its completion event
C5_Witness ==
    \E s \in Sessions :
        /\ taskPc[s] = "done" /\ ~cancelled[s]
        /\ At(s, {"update"}) # {} /\ At(s, {"complete"}) # {}

\* C6: every event carrying a session id is emitted after generateStream has
\* returned that id to its caller.
C6_EventsAfterReturn ==
    \A s \in Sessions : log[s] # <<>> => callerPc[s] = "returned"

\* a cancelStream call whose lookup found nothing returns in this step (the
\* first such return for an id shows in cancelLog; a later one changes nothing)
AbsentCancelReturns ==
    \E s \in Sessions :
        /\ CancelReturnedEv(FALSE) \in Range(cancelLog'[s])
        /\ CancelReturnedEv(FALSE) \notin Range(cancelLog[s])

\* a step of the cancelStream call for s
CancelStepOf(s) ==
    \/ cancelPc = "idle" /\ cancelPc' = "found" /\ cancelId' = s
    \/ cancelPc # "idle" /\ cancelId = s /\ cancelPc' # cancelPc

\* C7: a cancelStream call whose lookup finds no entry returns at once and
\* leaves the registry, every task's cancelled flag, every task and every
\* session's events as they were; a task's cancellation is requested only by
\* a call whose lookup found the entry of that task; once a cancelStream
\* call for an id has returned, no step of a later call for that id changes
\* a cancelled flag, the registry or an event log.
C7_CancelIsIdempotent ==
    [][ /\ AbsentCancelReturns =>
            /\ streamTasks' = streamTasks
            /\ cancelled' = cancelled
            /\ taskPc' = taskPc
            /\ log' = log
            /\ cancelPc' = "idle"
        /\ \A s \in Sessions :
            (cancelled'[s] /\ ~cancelled[s]) => (cancelPc = "found" /\ cancelId = s)
        /\ \A s \in Sessions :
            (CancelReturned(s) /\ CancelStepOf(s)) =>
                (cancelled' = cancelled /\ streamTasks' = streamTasks /\ log' = log)
      ]_vars

\* C8 (registry part): operations on another session never remove the entry
\* of a session: an id that generateStream has stored and returned, whose
\* task has not ended and was not cancelled, is in the registry.
C8_EntryKeptWhileRunning ==
    \A b \in Sessions :
        (callerPc[b] = "returned" /\ taskPc[b] \notin {"none", "done"} /\ ~cancelled[b])
            => b \in streamTasks

\* C9: a streaming request whose construction fails never has an entry in
\* the registry.
C9_ConstructionFailureCreatesNoSession ==
    \A s \in Sessions :
        (taskPc[s] # "none" /\ \A c \in ConstructOf(req[s]) : IsErr(c)) => s \notin streamTasks

\* C10: every generateText call makes at most one of the calls resolve and
\* reject, exactly one once it is over, and resolves only a request whose
\* construction succeeded.
C10_ExactlyOneSignal ==
    \A r \in TextRequests :
        /\ Len(signals[r]) <= 1
        /\ textPc[r] = "done" => Len(signals[r]) = 1
        /\ (Len(signals[r]) > 0 /\ signals[r][1].sig = "resolve")
              => \E c \in ConstructOf(textReq[r]) : ~IsErr(c)

\* one call resolved after a tool call, another rejected by the catch block
C10_Witness ==
    \E r1, r2 \in TextRequests :
        /\ textPc[r1] = "done" /\ signals[r1] = <<[sig |-> "resolve"]>> /\ textToolCalls[r1] > 0
        /\ textPc[r2] = "done" /\ signals[r2] = <<[sig |-> "reject", code |-> "AppleLLM"]>>

\* the events and signals of the unavailable paths
UnavailableEv == ErrorEv("unavailable")
UnavailableSig == [sig |-> "reject", code |-> "MODEL_UNAVAILABLE"]

\* C11: when the model is not available generateText rejects with
\* MODEL_UNAVAILABLE and generateStream emits the unavailable error, and
\* that is all the call does: the signal is made by the call itself (from
\* idle straight to its end, no construction step in between), it is the
\* only signal or event of the call, no task is spawned, no tool is called
\* and the registry gets no entry.
C11_UnavailableFailsFast ==
    [][ /\ \A s \in Sessions :
            UnavailableEv \in Range(log'[s]) =>
                /\ log'[s] = <<UnavailableEv>>
                /\ callerPc[s] \in {"idle", "unavailable", "returned"}
                /\ taskPc'[s] = "none" /\ errKind'[s] = "none" /\ chunks'[s] = 0
                /\ s \notin streamTasks'
        /\ \A r \in TextRequests :
            UnavailableSig \in Range(signals'[r]) =>
                /\ signals'[r] = <<UnavailableSig>>
                /\ textPc[r] \in {"idle", "done"} /\ textPc'[r] = "done"
                /\ textToolCalls'[r] = 0
      ]_vars

\* a generateStream call has returned after the unavailable error and a
\* generateText call was rejected with MODEL_UNAVAILABLE, next to calls
\* that found the model available
C11_Witness ==
    /\ callerPc["A"] = "returned" /\ log["A"] = <<UnavailableEv>>
    /\ signals["T1"] = <<UnavailableSig>>
    /\ signals["T2"] = <<[sig |-> "resolve"]>>

\* C12: the continuation of a tool call is resumed at most once and the
\* call yields at most one result; a second invocation of the completion
\* callback by the host does not resume it again: it is detected and the
\* process enters the error state (the checked continuation traps).
C12_ContinuationResumedOnce ==
    [][ \A r \in TextRequests :
            /\ toolResumes'[r] <= 1
            /\ (toolCallbacks[r] = 1 /\ toolCallbacks'[r] = 2) =>
                   (crashed' /\ toolResumes'[r] = toolResumes[r] /\ textPc' = textPc
                    /\ signals' = signals)
      ]_vars

\* the host has invoked the callback of one tool call twice
C12_Witness ==
    \E r \in TextRequests : toolCallbacks[r] = 2 /\ toolResumes[r] = 1 /\ crashed

\* the outcome of a tool call as a function of the host's (result, error):
\* the error first, then a string, then a serializable value, and the
\* unknown-tool-result error for everything else
ToolOutcome(result, error) ==
    IF error THEN [throwing |-> "toolCallError"]
    ELSE IF result = "string" THEN [returning |-> "verbatim"]
    ELSE IF result = "json" THEN [returning |-> "jsonString"]
    ELSE [throwing |-> "unknownToolCallError"]

\* C13: whatever (result, error) the host passes to the callback of a tool
\* call, the call ends as that function says: it fails with the
\* tool-invocation error, returns the string, returns the serialized text,
\* or fails with the unknown-tool-result error.
C13_ToolOutcomeIsClassified ==
    \A r \in TextRequests :
        ~Has(toolOutcome[r].out, "none") =>
            toolOutcome[r].out = ToolOutcome(toolOutcome[r].result, toolOutcome[r].error)

\* the accesses to the registry that complete in this step
Completing ==
    {w \in Mutators :
        \/ w.th = "caller" /\ callerPc'[w.key] = "returned"
        \/ w.th = "task" /\ taskPc'[w.key] = "done"
        \/ w.th = "cancel" /\ cancelPc' = "idle"}

\* C15: the registry is accessed under mutual exclusion: the insert of
\* generateStream, the removal of a task body and the lookup-and-removal of
\* cancelStream never overlap, so every step completes at most one of them
\* and the registry after the step is the registry before it with that one
\* mutation applied.
C15_RegistryAccessesDoNotOverlap ==
    [][ /\ Cardinality(Completing) <= 1
        /\ \A w \in Completing : streamTasks' = Written(streamTasks, w)
      ]_vars

\* a generateText call whose task is running
TextRunning(r) == textPc[r] \in {"construct", "respond", "tool", "catch"}

\* C16: a one-shot request is an in-flight session of the registry while
\* its task runs: the registry holds its cancellation handle.
C16_OneShotIsRegistered ==
    \A r \in TextRequests : TextRunning(r) => r \in streamTasks

\* C17: the update events of a session are in the order in which the model
\* stream yielded the chunks (the k-th chunk yielded is the k-th delivered),
\* and each of them precedes the terminal event of the session.
C17_UpdatesInGenerationOrder ==
    \A s \in Sessions :
        LET updates == At(s, {"update"})
            terminals == At(s, TerminalKinds)
        IN  /\ \A i \in updates, j \in updates :
                  i < j => log[s][i].chunk < log[s][j].chunk
            /\ \A i \in updates : log[s][i].chunk = Cardinality({j \in updates : j <= i})
            /\ \A i \in updates, t \in terminals : i < t

\* two chunks were delivered, then the terminal event
C17_Witness ==
    \E s \in Sessions : log[s] = <<UpdateEv(1), UpdateEv(2), CompleteEv>>

(***************************************************************************)
(* Properties of the schema translation                                    *)
(***************************************************************************)
\* the parser has returned or thrown
Translated == schemaRoot # NotTranslated

\* the description is dispatched to the parser of the given kinds
IsOfType(d, types) == ~Has(d, "anyOf") /\ Has(d, "type") /\ d.type \in types

\* C18: the translation of an object schema that does not fail is an
\* object whose properties are those of the properties map, each optional
\* exactly when its name is not in the required list, and so every one
\* optional when there is no such list; an object schema without a
\* properties map does not fail and translates to an object without
\* properties.
C18_OptionalUnlessRequired ==
    (Translated /\ IsOfType(schemaIn, {"object"})) =>
        LET declared == IF Has(schemaIn, "properties") THEN DOMAIN schemaIn.properties ELSE {}
            required == IF Has(schemaIn, "required") THEN schemaIn.required ELSE {}
        IN  /\ ~Has(schemaIn, "properties") => ~IsErr(schemaRoot)
            /\ ~IsErr(schemaRoot) =>
                  /\ schemaRoot.kind = "object"
                  /\ DOMAIN schemaRoot.properties = declared
                  /\ \A p \in declared :
                        /\ schemaRoot.properties[p].name = p
                        /\ schemaRoot.properties[p].isOptional = (p \notin required)

\* an object with a required and an optional property was translated
C18_Witness ==
    /\ Translated /\ IsOfType(schemaIn, {"object"}) /\ ~IsErr(schemaRoot)
    /\ Has(schemaIn, "required") /\ schemaIn.required = {"a"}
    /\ DOMAIN schemaRoot.properties = {"a", "b"}
    /\ ~schemaRoot.properties["a"].isOptional /\ schemaRoot.properties["b"].isOptional

\* the bound keyword that decides, by priority
FirstBound(d) ==
    IF Has(d, "maximum") THEN "maximum"
    ELSE IF Has(d, "minimum") THEN "minimum"
    ELSE IF Has(d, "exclusiveMaximum") THEN "exclusiveMaximum"
    ELSE IF Has(d, "exclusiveMinimum") THEN "exclusiveMinimum"
    ELSE "none"

IsNumeric(d) == IsOfType(d, {"number", "integer"})

\* the value of an inclusive bound keyword as the guide of the schema's type holds it
InclusiveValue(d, k) == IF d.type = "integer" THEN IntOf(d[k]) ELSE d[k]

\* C19: a number or integer schema without enum and multipleOf translates,
\* without failing, to a node of its own numeric type with the one guide
\* its first bound keyword gives: the inclusive maximum, else the inclusive
\* minimum (both with the value of the keyword, converted to Int for an
\* integer schema), else a maximum from the
\* exclusive maximum, else a minimum from the exclusive minimum, else none.
C19_OneBoundByPriority ==
    (Translated /\ IsNumeric(schemaIn)
        /\ ~Has(schemaIn, "enum") /\ ~Has(schemaIn, "multipleOf")) =>
        /\ ~IsErr(schemaRoot)
        /\ schemaRoot.kind = (IF schemaIn.type = "integer" THEN "integer" ELSE "double")
        /\ CASE FirstBound(schemaIn) = "maximum" ->
                  schemaRoot.guide = [g |-> "maximum", v |-> InclusiveValue(schemaIn, "maximum"), ulp |-> 0]
             [] FirstBound(schemaIn) = "minimum" ->
                  schemaRoot.guide = [g |-> "minimum", v |-> InclusiveValue(schemaIn, "minimum"), ulp |-> 0]
             [] FirstBound(schemaIn) = "exclusiveMaximum" -> schemaRoot.guide.g = "maximum"
             [] FirstBound(schemaIn) = "exclusiveMinimum" -> schemaRoot.guide.g = "minimum"
             [] OTHER -> schemaRoot.guide = [g |-> "none"]

\* a schema with all four bound keywords was translated to its maximum alone
C19_Witness ==
    /\ Translated /\ IsNumeric(schemaIn)
    /\ DOMAIN schemaIn = BoundKeywords \cup {"type"}
    /\ schemaRoot.guide = [g |-> "maximum", v |-> 7, ulp |-> 0]

\* C20: the translation of a number or integer schema that carries
\* multipleOf fails with the unsupported-constraint error, whatever other
\* keywords the schema carries.
C20_MultipleOfAlwaysFails ==
    (Translated /\ IsNumeric(schemaIn) /\ Has(schemaIn, "multipleOf")) =>
        schemaRoot = InvalidSchema("MultipleOf is not supported by Apple Foundational models.")

\* C21: an integer schema whose first bound keyword is exclusiveMaximum N
\* gets the inclusive maximum that admits exactly the integers below N (N - 1
\* for a whole N), and one whose first bound keyword is exclusiveMinimum N
\* gets the inclusive minimum that admits exactly the integers above N
\* (N + 1 for a whole N).  Keyword values are kept as 2N.
C21_ExclusiveBoundsKeepTheIntegers ==
    (Translated /\ IsOfType(schemaIn, {"integer"})
        /\ ~Has(schemaIn, "enum") /\ ~Has(schemaIn, "multipleOf")) =>
        /\ FirstBound(schemaIn) = "exclusiveMaximum" =>
             /\ ~IsErr(schemaRoot) /\ schemaRoot.kind = "integer"
             /\ schemaRoot.guide.g = "maximum" /\ schemaRoot.guide.ulp = 0
             /\ 2 * schemaRoot.guide.v < schemaIn.exclusiveMaximum
             /\ 2 * (schemaRoot.guide.v + 1) >= schemaIn.exclusiveMaximum
        /\ FirstBound(schemaIn) = "exclusiveMinimum" =>
             /\ ~IsErr(schemaRoot) /\ schemaRoot.kind = "integer"
             /\ schemaRoot.guide.g = "minimum" /\ schemaRoot.guide.ulp = 0
             /\ 2 * schemaRoot.guide.v > schemaIn.exclusiveMinimum
             /\ 2 * (schemaRoot.guide.v - 1) <= schemaIn.exclusiveMinimum

\* the string form of an element of an enum list
StringForm(v) == IF Has(v, "s") THEN v.s ELSE ToString(v.n)

\* the EnumValues guide of exactly the values of the list l
EnumValues(l) == [g |-> "anyOf", values |-> [i \in 1..Len(l) |-> StringForm(l[i])]]

\* C22: a string schema with an enum list translates to a String node with
\* the EnumValues guide of exactly those values, whether or not a pattern
\* (even one that does not compile) is present; with no enum and a pattern
\* it translates to a Pattern guide of that pattern or fails with the
\* invalid-pattern error; with neither it translates to a node without guide.
C22_EnumBeforePattern ==
    (Translated /\ IsOfType(schemaIn, {"string"})) =>
        IF Has(schemaIn, "enum")
        THEN schemaRoot = [kind |-> "string", guide |-> EnumValues(schemaIn.enum)]
        ELSE IF Has(schemaIn, "pattern")
        THEN \/ Has(schemaIn.pattern, "src") /\ schemaRoot = InvalidPattern(schemaIn.pattern.src)
             \/ /\ ~IsErr(schemaRoot) /\ schemaRoot.kind = "string"
                /\ schemaRoot.guide.g = "pattern"
        ELSE schemaRoot = [kind |-> "string", guide |-> [g |-> "none"]]

\* C22 as amended: the enum list counts when all its elements are Strings and
\* the pattern counts when it is a String; a string schema with such an enum
\* list translates to the EnumValues guide of exactly those values whatever
\* pattern is present (an invalid one included); otherwise with such a
\* pattern it translates to the Pattern guide of that pattern when it
\* compiles and fails with the invalid-pattern error when it does not;
\* otherwise it translates to a node without guide.
C22_StringListBeforePattern ==
    (Translated /\ IsOfType(schemaIn, {"string"})) =>
        IF Has(schemaIn, "enum") /\ IsStringList(schemaIn.enum)
        THEN schemaRoot = [kind |-> "string", guide |-> EnumValues(schemaIn.enum)]
        ELSE IF Has(schemaIn, "pattern") /\ Has(schemaIn.pattern, "src")
        THEN IF schemaIn.pattern.valid
             THEN schemaRoot = [kind |-> "string",
                               guide |-> [g |-> "pattern", regex |-> schemaIn.pattern.src]]
             ELSE schemaRoot = InvalidPattern(schemaIn.pattern.src)
        ELSE schemaRoot = [kind |-> "string", guide |-> [g |-> "none"]]

\* a string schema with an enum list of Strings and a pattern that does not
\* compile was translated to the EnumValues guide
C22_Witness ==
    /\ Translated /\ IsOfType(schemaIn, {"string"})
    /\ Has(schemaIn, "enum") /\ IsStringList(schemaIn.enum)
    /\ Has(schemaIn, "pattern") /\ Has(schemaIn.pattern, "src") /\ ~schemaIn.pattern.valid
    /\ ~IsErr(schemaRoot) /\ schemaRoot.guide.g = "anyOf"

\* C23: a number or integer schema that carries an enum list translates to a
\* node whose one guide is the EnumValues guide of the string form of each
\* listed value, so that it carries no minimum or maximum bound, whatever
\* bound keywords the schema carries as well.
C23_NumericEnumAsStrings ==
    (Translated /\ IsNumeric(schemaIn) /\ Has(schemaIn, "enum")) =>
        /\ ~IsErr(schemaRoot)
        /\ schemaRoot.guide = EnumValues(schemaIn.enum)

SupportedTypes == {"object", "array", "string", "number", "integer", "boolean"}

\* the unsupported-kind error, for a missing tag or a tag that is not supported
UnsupportedKind(e) == e \in {UnsupportedType(t) : t \in {"unknown", "null"}}

\* the descriptions nested directly in d that the translation of d translates
NestedIn(d) ==
    IF Has(d, "anyOf") /\ IsDictionaryList(d.anyOf) THEN Range(d.anyOf)
    ELSE IF ~Has(d, "type") THEN {}
    ELSE IF d.type = "object" /\ Has(d, "properties")
    THEN {d.properties[p] : p \in {q \in DOMAIN d.properties : ~IsScalar(d.properties[q])}}
    ELSE IF d.type = "array" /\ Has(d, "items") THEN {d.items}
    ELSE {}

\* the failures the translation of a nested description of d can end with
NestedFailures(d) == UNION {Errors(parseDynamicSchema(n)) : n \in NestedIn(d)}

\* a translated tree holds no failure anywhere inside
RECURSIVE IsWhole(_)
IsWhole(n) ==
    /\ ~IsErr(n)
    /\ n.kind = "union" => \A i \in DOMAIN n.anyOf : IsWhole(n.anyOf[i])
    /\ n.kind = "object" => \A p \in DOMAIN n.properties : IsWhole(n.properties[p].schema)
    /\ n.kind = "array" => IsWhole(n.arrayOf)

\* what C24 says once the anyOf list of d is taken to be present when asList holds
Dispatched(d, out, asList) ==
    /\ IF asList
       THEN IF IsErr(out) THEN out \in NestedFailures(d)
            ELSE /\ out.kind = "union"
                 /\ Len(out.anyOf) = Len(d.anyOf)
                 /\ \A i \in 1..Len(d.anyOf) : out.anyOf[i] \in parseDynamicSchema(d.anyOf[i])
       ELSE IF Has(d, "type") /\ d.type \in SupportedTypes
       THEN /\ UnsupportedKind(out) => out \in NestedFailures(d)
            /\ ~IsErr(out) /\ d.type \in {"object", "array", "boolean"} => out.kind = d.type
            /\ ~IsErr(out) => out.kind # "union"
       ELSE out = UnsupportedType(IF Has(d, "type") THEN d.type ELSE "unknown")
    /\ NestedFailures(d) # {} => IsErr(out)
    /\ ~IsErr(out) => IsWhole(out)

\* C24: a description with an anyOf list translates to the Union of its
\* translated elements whatever its type tag; one without must carry one of
\* the six type tags and fails with the unsupported-kind error otherwise; a
\* failure of a nested property, item or variant fails the whole translation
\* and no tree with a failure inside is ever returned.
C24_Dispatch ==
    Translated => Dispatched(schemaIn, schemaRoot, Has(schemaIn, "anyOf"))

\* C24 as amended: the anyOf list counts when all its elements are
\* descriptions (dictionaries); otherwise it is ignored and the type tag decides.
C24_DispatchOnDescriptionLists ==
    Translated =>
        Dispatched(schemaIn, schemaRoot, Has(schemaIn, "anyOf") /\ IsDictionaryList(schemaIn.anyOf))

\* a description with an anyOf list and the type tag "null" became a Union
C24_Witness ==
    /\ Translated /\ Has(schemaIn, "anyOf") /\ Has(schemaIn, "type")
    /\ ~(schemaIn.type \in SupportedTypes)
    /\ ~IsErr(schemaRoot) /\ schemaRoot.kind = "union" /\ Len(schemaRoot.anyOf) = 1

BuiltDone == buildOut # NotBuilt

\* createTranscriptAndPrompt has been called on the messages
TranscriptTried == BuiltDone /\ buildOut.transcript # NotReached

LastIsUser(m) == Len(m) > 0 /\ Has(m[Len(m)], "role") /\ m[Len(m)].role = "user"

\* C25: createTranscriptAndPrompt fails with the empty-list error on an empty
\* message list and with the last-message error on a non-empty list whose
\* last message is not of role user; in both cases it returns neither a
\* transcript nor a prompt, the later steps are not reached and the block
\* throws before the model is called.
C25_TranscriptNeedsLastUser ==
    TranscriptTried =>
        /\ Len(buildIn.messages) = 0 =>
             buildOut.transcript = InvalidMessage("Messages array cannot be empty")
        /\ (Len(buildIn.messages) > 0 /\ ~LastIsUser(buildIn.messages)) =>
             buildOut.transcript = InvalidMessage("Last message must be from user role")
        /\ ~LastIsUser(buildIn.messages) =>
             /\ ~Has(buildOut.transcript, "transcript") /\ ~Has(buildOut.transcript, "userPrompt")
             /\ buildOut.options = NotReached /\ buildOut.schema = NotReached
             /\ buildOut.result = buildOut.transcript

\* a list that ends with an assistant message was refused
C25_Witness ==
    /\ TranscriptTried /\ Len(buildIn.messages) = 2
    /\ buildIn.messages[2] = AssistantMsg
    /\ buildOut.result = InvalidMessage("Last message must be from user role")

KnownRoles == {"system", "user", "assistant"}

\* a list the builder accepts as far as C25 goes, all of whose messages have
\* a role and a content
WellFormed(m) ==
    /\ LastIsUser(m)
    /\ \A i \in 1..Len(m) : Has(m[i], "role") /\ Has(m[i], "content")

EntryOfRole(role) ==
    CASE role = "system" -> "instructions"
      [] role = "user" -> "prompt"
      [] role = "assistant" -> "response"

\* the definitions of the tools createTools returned
DefinitionsOf(tools) ==
    [i \in 1..Len(tools) |-> [name |-> tools[i].name, description |-> tools[i].description,
                              parameters |-> tools[i].parameters]]

\* C26: for a well-formed list of n messages whose first n-1 roles are
\* system, user or assistant, the transcript has n-1 entries, entry i being
\* the Instructions, Prompt or Response of message i with its content, the
\* last message is returned as the prompt only, and exactly the Instructions
\* entries carry the definitions of all tools; if some earlier message has
\* another role the builder fails with an error naming the first such role.
C26_OneEntryPerEarlierMessage ==
    (TranscriptTried /\ WellFormed(buildIn.messages)) =>
        LET m == buildIn.messages
            n == Len(m)
            t == buildOut.transcript
            others == {i \in 1..(n - 1) : m[i].role \notin KnownRoles}
        IN  IF others = {}
            THEN /\ ~IsErr(t) /\ Len(t.transcript) = n - 1
                 /\ t.userPrompt = m[n].content
                 /\ \A i \in 1..(n - 1) :
                      /\ t.transcript[i].entry = EntryOfRole(m[i].role)
                      /\ t.transcript[i].content = m[i].content
                      /\ IF m[i].role = "system"
                         THEN t.transcript[i].toolDefinitions = DefinitionsOf(buildOut.tools.tools)
                         ELSE ~Has(t.transcript[i], "toolDefinitions")
            ELSE t = InvalidMessage(m[CHOOSE i \in others : \A j \in others : i <= j].role)

\* system, assistant, user with two tools: two entries, the first with both definitions
C26_Witness ==
    /\ TranscriptTried /\ buildIn.messages = <<SystemMsg, AssistantMsg, UserMsg>>
    /\ ~IsErr(buildOut.transcript) /\ Len(buildOut.transcript.transcript) = 2
    /\ Len(buildOut.transcript.transcript[1].toolDefinitions) = 2
    /\ buildOut.transcript.transcript[2].entry = "response"

\* createGenerationOptions has been called on the options
OptionsTried == BuiltDone /\ buildOut.options # NotReached

\* C27: createGenerationOptions fails with the conflicting-sampling-methods
\* error exactly when topP and topK are both supplied; otherwise the
\* sampling mode is the probability threshold topP when only topP is
\* supplied, the top-k count topK when only topK is, and greedy when neither
\* is, and temperature and maxTokens are passed on as supplied, or absent.
C27_SamplingModeAndCopies ==
    OptionsTried =>
        LET o == buildIn.options
            g == buildOut.options
        IN  /\ IsErr(g) <=> (Has(o, "topP") /\ Has(o, "topK"))
            /\ IsErr(g) => g.err = "conflictingSamplingMethods" /\ buildOut.result = g
            /\ ~IsErr(g) =>
                 /\ g.sampling = (IF Has(o, "topP") THEN [mode |-> "probabilityThreshold", v |-> o.topP]
                                  ELSE IF Has(o, "topK") THEN [mode |-> "top", v |-> o.topK]
                                  ELSE [mode |-> "greedy"])
                 /\ g.temperature = (IF Has(o, "temperature") THEN <<o.temperature>> ELSE <<>>)
                 /\ g.maximumResponseTokens = (IF Has(o, "maxTokens") THEN <<o.maxTokens>> ELSE <<>>)

\* options with topP, topK and a temperature were refused
C27_Witness ==
    /\ OptionsTried /\ Has(buildIn.options, "topP") /\ Has(buildIn.options, "topK")
    /\ Has(buildIn.options, "temperature")
    /\ buildOut.result = [err |-> "conflictingSamplingMethods", msg |-> ""]

\* a descriptor createTools cannot build a tool from for lack of a key
LacksKey(toolDef) ==
    ~Has(toolDef, "inputSchema") \/ ~Has(toolDef, "id") \/ ~Has(toolDef, "name")

\* a descriptor whose description is no String or whose inputSchema is no dictionary
MistypedKey(toolDef) ==
    \/ Has(toolDef, "description") /\ ~Has(toolDef.description, "s")
    \/ Has(toolDef, "inputSchema") /\ IsScalar(toolDef.inputSchema)

\* a descriptor with all its keys from which no tool may come
MayFail(toolDef) ==
    \/ MistypedKey(toolDef)
    \/ Errors(createGenerationSchema(toolDef.inputSchema)) # {}

\* what C30 says of a tool list l that holds a descriptor lacking a key
IncompleteFails(l) ==
    LET first == CHOOSE i \in 1..Len(l) :
                    /\ ~IsScalar(l[i]) /\ LacksKey(l[i])
                    /\ \A j \in 1..(i - 1) : IsScalar(l[j]) \/ ~LacksKey(l[j])
        earlier == \E j \in 1..(first - 1) : MayFail(l[j])
    IN  /\ IsErr(buildOut.tools)
        /\ buildOut.transcript = NotReached /\ buildOut.options = NotReached
        /\ buildOut.schema = NotReached
        /\ buildOut.result = buildOut.tools
        /\ ~earlier =>
             buildOut.tools = (IF ~Has(l[first], "id") \/ ~Has(l[first], "name")
                                  \/ MistypedKey(l[first])
                               THEN InvalidToolDefinition
                               ELSE UnsupportedType("unknown"))

\* the tool list holds a descriptor (a dictionary) that lacks a key
HoldsIncomplete(l) == \E i \in 1..Len(l) : ~IsScalar(l[i]) /\ LacksKey(l[i])

\* C30: when the tool list of a request holds a descriptor without
\* inputSchema, id or name, createTools fails with a schema error, the later
\* steps are not reached and the block throws before the model is called,
\* wherever in the list the descriptor stands; when that descriptor is the
\* first one that fails, the error is the invalid-definition error for a
\* missing id or name and else the unsupported-type error of the empty
\* description that stands in for the missing schema.
C30_IncompleteDescriptorFailsRequest ==
    (BuiltDone /\ Has(buildIn.options, "tools") /\ HoldsIncomplete(buildIn.options.tools)) =>
        IncompleteFails(buildIn.options.tools)

\* C30 as amended: the above holds of a tool list all of whose elements are
\* descriptors (dictionaries); a list with an element that is not one is
\* taken for no tool list: createTools returns no tool and does not fail,
\* whatever descriptors the list holds.
C30_IncompleteDescriptorFailsListOfDescriptors ==
    (BuiltDone /\ Has(buildIn.options, "tools")) =>
        LET l == buildIn.options.tools
        IN  IF IsDictionaryList(l)
            THEN HoldsIncomplete(l) => IncompleteFails(l)
            ELSE buildOut.tools = [tools |-> <<>>]

\* a sound tool followed by one without inputSchema: the request was refused
C30_Witness ==
    /\ BuiltDone /\ Has(buildIn.options, "tools")
    /\ buildIn.options.tools = <<WeatherTool, NoSchemaTool>>
    /\ LastIsUser(buildIn.messages)
    /\ buildOut.result = UnsupportedType("unknown")

\* the host calls back for the tool call of s
HostCallback(s) ==
    \E h \in StreamHostCalls : StreamToolCallback(s, h.result, h.error)

\* the part of C29 about the continuation: while the tool call of s waits
\* for the host, no step of a cancelStream call for s resumes it or emits an
\* event for s, the one step that ends the wait is the host's callback,
\* which the call of a cancelled task still takes.
C29_CancelLeavesContinuation ==
    [][ \A s \in Sessions :
          (toolCall[s] = "pending" /\ ~crashed) =>
            /\ CancelStepOf(s) => (toolCall'[s] = "pending" /\ log'[s] = log[s])
            /\ toolCall'[s] # "pending" => HostCallback(s)
            /\ cancelled[s] => ENABLED HostCallback(s)
      ]_vars

\* C29: a cancelStream call for a session whose tool call waits for the
\* host removes the entry of the session from the registry when it returns,
\* and does not resume the continuation: the call stays suspended, the
\* cancel emitting nothing, until the host calls back; that callback is
\* taken by the call of the cancelled task; without it the call never
\* returns.
C29_CancelWhileSuspendedInToolCall ==
    [][ \A s \in Sessions :
          (toolCall[s] = "pending" /\ ~crashed) =>
            /\ (CancelStepOf(s) /\ cancelPc = "cancelledTask" /\ cancelPc' = "idle") =>
                 s \notin streamTasks'
            /\ CancelStepOf(s) => (toolCall'[s] = "pending" /\ log'[s] = log[s])
            /\ toolCall'[s] # "pending" => HostCallback(s)
            /\ cancelled[s] => ENABLED HostCallback(s)
      ]_vars

\* the task of s has run its removeValue (line 149) and ended
TaskEnded(s) == taskPc[s] = "done"

\* C28: every session whose task was spawned eventually ends: its task
\* executes its registry removal, having emitted a terminal event or having
\* been cancelled.
C28_EverySessionEnds ==
    \A s \in Sessions :
        (taskPc[s] # "none") ~>
            (TaskEnded(s) /\ (At(s, TerminalKinds) # {} \/ cancelled[s]))

\* what holds instead: the task ends or the process has trapped
C28_EndsUnlessTrapped ==
    \A s \in Sessions :
        (taskPc[s] # "none") ~>
            (crashed \/ (TaskEnded(s) /\ (At(s, TerminalKinds) # {} \/ cancelled[s])))

====
